---- MODULE Spec2Model ----
(***************************************************************************)
(* The connection state machine of libpq.rs (pure protocol engine):        *)
(* AsyncStatus, the receive loop parse_input, the send_* operations, COPY, *)
(* notifications and cancellation, against a protocol-conforming backend.  *)
(*                                                                         *)
(* Option<T> is a sequence: None is <<>>, Some(x) is <<x>>.  Strings that  *)
(* the code inspects (command tags) are sequences of characters.           *)
(***************************************************************************)
EXTENDS Integers, Sequences, FiniteSets, TLC

VARIABLES
    async_status,     \* State.async_status: the set of flags that are set
    result,           \* State.result: Option<Result>
    notifies,         \* State.notifies: Vec<Notify>
    single_row_mode,  \* State.single_row_mode
    copy,             \* State.copy: Option<CopyInOptions>
    be_key,           \* State.be_pid and State.be_key, as <<pid, key>>
    parameters,       \* State.parameters: set of <<key, value>>
    out,              \* frames written to the socket, not yet read by the backend
    nsent,            \* number of frames written to the socket so far
    inb,              \* frames written by the backend, not yet read by the client
    srv,              \* the backend's protocol state
    pc,               \* position of the client's current call
    caller,           \* the public operation that is running
    arg,              \* the argument of that operation
    l_status,         \* parse_input's local async_status
    l_result,         \* parse_input's local result
    l_srm,            \* parse_input's local single_row_mode
    ret,              \* what the last completed operation returned
    ncmd,             \* number of commands the client has issued
    ncopy,            \* number of put_copy_data calls made
    nnotify,          \* number of notifications the backend has raised
    g,                \* history: the last command sent and how the one before it ended
    stream,           \* the TCP stream as the socket sees it: bytes on their way, bytes readable
    rx                \* each thread's position in Socket::receive

state == <<async_status, result, notifies, single_row_mode, copy, be_key, parameters>>
locals == <<l_status, l_result, l_srm>>
socket == <<stream, rx>>
engine == <<async_status, result, notifies, single_row_mode, copy, be_key, parameters,
            out, nsent, inb, srv, pc, caller, arg, l_status, l_result, l_srm,
            ret, ncmd, ncopy, nnotify, g>>
vars == <<async_status, result, notifies, single_row_mode, copy, be_key, parameters,
          out, nsent, inb, srv, pc, caller, arg, l_status, l_result, l_srm,
          ret, ncmd, ncopy, nnotify, g, stream, rx>>

----------------------------------------------------------------------------
(* Bounds of the model *)

MaxCmds == 2      \* commands issued by the client
MaxCopy == 1      \* put_copy_data calls
MaxNotify == 2    \* notifications raised by the backend
NRows == 2        \* rows of a SELECT, chunks of a COPY TO STDOUT
MaxParamLen == 4  \* bytes of a Bind parameter, of a DataRow field
MaxFields == 2    \* fields of a DataRow

----------------------------------------------------------------------------
(* Option *)

None == <<>>
Some(x) == <<x>>
IsSome(o) == o # <<>>
Unwrap(o) == o[1]

----------------------------------------------------------------------------
(* AsyncStatus: bitflags, a set of flag names.  IDLE is the empty set. *)

IDLE == {}
PREPARE == {"PREPARE"}
BIND == {"BIND"}
EXECUTE == {"EXECUTE"}
DESCRIBE_STATEMENT == {"DESCRIBE_STATEMENT"}
DESCRIBE_ROW == {"DESCRIBE_ROW"}
COPY_IN == {"COPY_IN"}
COPY_OUT == {"COPY_OUT"}
READY == {"READY"}
CONNECT == {"CONNECT"}
BEGIN == {"BEGIN"}

Flags == PREPARE \cup BIND \cup EXECUTE \cup DESCRIBE_STATEMENT \cup DESCRIBE_ROW
         \cup COPY_IN \cup COPY_OUT \cup READY \cup CONNECT \cup BEGIN

insert(st, f) == st \cup f
remove(st, f) == st \ f
contains(st, f) == f \subseteq st

AsyncStatusDefault == CONNECT

----------------------------------------------------------------------------
(* Command tags, as the character strings the backend sends *)

TagSelect == <<"S", "E", "L", "E", "C", "T", " ", "2">>
TagBegin == <<"B", "E", "G", "I", "N">>
TagCommit == <<"C", "O", "M", "M", "I", "T">>
TagCopy == <<"C", "O", "P", "Y", " ", "2">>

PfxBegin == <<"B", "E", "G", "I", "N">>
PfxCommit == <<"C", "O", "M", "M", "I", "T">>
PfxCopy == <<"C", "O", "P", "Y", " ">>

starts_with(s, p) == Len(s) >= Len(p) /\ SubSeq(s, 1, Len(p)) = p

----------------------------------------------------------------------------
(* Result: what parse_input accumulates.  status is "CopyIn" / "CopyOut". *)

ResultDefault ==
    [status |-> None, cmd_status |-> None, error_message |-> None,
     notices |-> <<>>, params |-> None, description |-> None, rows |-> <<>>]

get_or_insert_default(r) == IF r = None THEN ResultDefault ELSE Unwrap(r)

----------------------------------------------------------------------------
(* Frames of the backend: [ty, val, cmd].  ty is the tag byte, val the      *)
(* payload, cmd the literal of the command the frame answers.               *)

Frame(ty, val, c) == [ty |-> ty, val |-> val, cmd |-> c]

InboundTags == {"1", "2", "3", "A", "C", "d", "D", "E", "G", "H", "I", "K", "N",
                "R", "S", "t", "T", "Z"}

MessageName(ty) ==
    CASE ty = "1" -> "ParseComplete"
      [] ty = "2" -> "BindComplete"
      [] ty = "3" -> "CloseComplete"
      [] ty = "A" -> "NotificationResponse"
      [] ty = "C" -> "CommandComplete"
      [] ty = "d" -> "CopyData"
      [] ty = "D" -> "DataRow"
      [] ty = "E" -> "ErrorResponse"
      [] ty = "G" -> "CopyInResponse"
      [] ty = "H" -> "CopyOut"
      [] ty = "I" -> "EmptyQuery"
      [] ty = "K" -> "BackendKeyData"
      [] ty = "N" -> "NoticeResponse"
      [] ty = "R" -> "AuthentificationOk"
      [] ty = "S" -> "ParameterStatus"
      [] ty = "t" -> "ParameterDescription"
      [] ty = "T" -> "RowDescription"
      [] ty = "Z" -> "ReadyForQuery"
      [] OTHER -> "InvalidResponse"

\* Message::from(ty, buf): Ok(message) for the tags it knows, Err otherwise.
MessageFrom(f) ==
    IF f.ty \in InboundTags
    THEN [ok |-> TRUE, name |-> MessageName(f.ty), val |-> f.val, cmd |-> f.cmd]
    ELSE [ok |-> FALSE, name |-> "InvalidResponse", val |-> f.val, cmd |-> f.cmd]

----------------------------------------------------------------------------
(* The arms of parse_input's match, as functions of the local async_status  *)
(* and the local result.                                                    *)

OnBindComplete(st) == remove(st, BIND)

OnParseComplete(st) == remove(st, PREPARE)

OnParameterDescription(st) == remove(st, DESCRIBE_STATEMENT)

\* variant: RowDescription leaves its flag set
OnRowDescription_keep(st) == st

OnRowDescription(st) == remove(st, DESCRIBE_ROW)

\* variant: ReadyForQuery ends the command
OnReadyForQuery_idle(st) == IDLE

OnReadyForQuery(st) == remove(st, CONNECT)

\* variant: the error leaves the flags alone
OnErrorResponse_stay(st) == st

OnErrorResponse(st) == IDLE

OnCopyInResponse(st) == COPY_IN

\* variant: CopyOutResponse adds its flag to the outstanding ones
OnCopyOut_insert(st) == insert(st, COPY_OUT)

OnCopyOut(st) == COPY_OUT

\* variant: every completion tag clears EXECUTE
OnCommandComplete_execute(st, cmd_status) == remove(st, EXECUTE)

OnCommandComplete(st, cmd_status) ==
    IF starts_with(cmd_status, PfxBegin) THEN insert(st, BEGIN)
    ELSE IF starts_with(cmd_status, PfxCommit) THEN remove(st, BEGIN)
    ELSE IF starts_with(cmd_status, PfxCopy) THEN remove(st, COPY_IN)
    ELSE remove(st, EXECUTE)

\* the arms that leave the loop with `break`
Breaks(m, srm) ==
    \/ m.name = "CommandComplete" /\ starts_with(m.val, PfxCopy)
    \/ m.name = "CopyInResponse"
    \/ m.name = "CopyOut"
    \/ m.name = "DataRow" /\ srm

\* the arms the match does not have: `_ => unreachable!()`
Unreachable(m) == m.name = "CloseComplete"

ArmStatus(m, st) ==
    CASE m.name = "BindComplete" -> OnBindComplete(st)
      [] m.name = "CommandComplete" -> OnCommandComplete(st, m.val)
      [] m.name = "CopyInResponse" -> OnCopyInResponse(st)
      [] m.name = "CopyOut" -> OnCopyOut(st)
      [] m.name = "ErrorResponse" -> OnErrorResponse(st)
      [] m.name = "ParseComplete" -> OnParseComplete(st)
      [] m.name = "ParameterDescription" -> OnParameterDescription(st)
      [] m.name = "ReadyForQuery" -> OnReadyForQuery(st)
      [] m.name = "RowDescription" -> OnRowDescription(st)
      [] OTHER -> st

add_row(r, row) == [r EXCEPT !.rows = Append(@, row)]

ArmResult(m, res) ==
    LET r == get_or_insert_default(res) IN
    CASE m.name = "CommandComplete" -> Some([r EXCEPT !.cmd_status = Some(m.val)])
      [] m.name = "CopyInResponse" -> Some([r EXCEPT !.status = Some("CopyIn")])
      [] m.name = "CopyOut" -> Some([r EXCEPT !.status = Some("CopyOut")])
      [] m.name = "DataRow" -> Some(add_row(r, m.val))
      [] m.name = "ErrorResponse" -> Some([r EXCEPT !.error_message = Some(m.val)])
      [] m.name = "NoticeResponse" -> Some([r EXCEPT !.notices = Append(@, m.val)])
      [] m.name = "ParameterDescription" -> Some([r EXCEPT !.params = Some(m.val)])
      [] m.name = "RowDescription" -> Some([r EXCEPT !.description = Some(m.val)])
      [] OTHER -> res

\* the arms that write to self.state at once
\* variant: the newest notification goes to the front
NotifiesPush_front(q, notify) == <<notify>> \o q

NotifiesPush(q, notify) == Append(q, notify)

ArmNotifies(m, q) == IF m.name = "NotificationResponse" THEN NotifiesPush(q, m.val) ELSE q

\* variant: BackendKeyData is read and dropped
ArmBeKey_drop(m, k) == k

ArmBeKey(m, k) == IF m.name = "BackendKeyData" THEN m.val ELSE k

ArmCopy(m, c) == IF m.name = "CopyInResponse" THEN Some(m.val) ELSE c

ArmParameters(m, p) == IF m.name = "ParameterStatus" THEN p \cup {m.val} ELSE p

\* the write-back at the end of parse_input
\* variant: the accumulated result is always stored
WriteBackResult_keep(st, res) == res

WriteBackResult(st, res) == IF st = IDLE THEN None ELSE res

----------------------------------------------------------------------------
(* Frontend messages: [ty, kind, lit].  A statement is a kind of SQL        *)
(* command and a literal that its rows carry back.                          *)

Msg(ty, kind, lit) == [ty |-> ty, kind |-> kind, lit |-> lit]

Kinds == {"select", "error", "begin", "commit", "copyin", "copyout"}

NoStmt == [kind |-> "none", lit |-> 0]

ErrSql == "22012"        \* a run-time SQL error
ErrCancel == "57014"     \* query_canceled
ErrCopyFail == "57014c"  \* COPY aborted by CopyFail
ErrProtocol == "08P01"   \* protocol violation
ErrNoStmt == "26000"     \* the statement or portal does not exist

----------------------------------------------------------------------------
(* The backend: a protocol-conforming PostgreSQL server (protocol 3.0)      *)

RECURSIVE Rows(_, _, _, _)
Rows(ty, lit, n, c) ==
    IF n = 0 THEN <<>> ELSE Append(Rows(ty, lit, n - 1, c), Frame(ty, <<lit, n>>, c))

ReadyFrame(lit) == Frame("Z", "I", lit)

\* What executing statement st sends in answer to command c, before ReadyForQuery.
ExecFrames(st, c, cancelled) ==
    CASE st.kind = "select" /\ ~cancelled ->
           Rows("D", st.lit, NRows, c) \o <<Frame("C", TagSelect, c)>>
      [] st.kind = "select" /\ cancelled ->
           Rows("D", st.lit, 1, c) \o <<Frame("E", <<ErrCancel, c>>, c)>>
      [] st.kind = "error" -> <<Frame("E", <<ErrSql, c>>, c)>>
      [] st.kind = "select2" ->      \* "SELECT ..; SELECT .." in one Query message
           Rows("D", st.lit, NRows, c) \o <<Frame("C", TagSelect, c), Frame("T", "desc", c)>>
           \o Rows("D", st.lit, NRows, c) \o <<Frame("C", TagSelect, c)>>
      [] st.kind = "begin" -> <<Frame("C", TagBegin, c)>>
      [] st.kind = "commit" -> <<Frame("C", TagCommit, c)>>
      [] st.kind = "copyin" -> <<Frame("G", "text", c)>>
      [] st.kind = "copyout" -> <<Frame("H", "text", c)>> \o Rows("d", st.lit, NRows, c)
                                  \o <<Frame("c", "", c), Frame("C", TagCopy, c)>>
      [] OTHER -> <<Frame("E", <<ErrNoStmt, c>>, c)>>

ExecFails(kind, cancelled) ==
    \/ kind \in {"error", "none"}
    \/ kind = "select" /\ cancelled

HasRows(kind) == kind \in {"select", "error"}

DescribeFrames(kind, lit) ==
    IF HasRows(kind) THEN <<Frame("T", "desc", lit)>> ELSE <<Frame("n", "", lit)>>

SrvInit ==
    [mode |-> "startup", skip |-> FALSE, ext |-> FALSE, cancel |-> FALSE,
     stmt |-> NoStmt, portal |-> NoStmt, lit |-> 0]

\* The frames the backend sends on reading m, and its next state.
Respond(m, s) ==
    CASE s.mode = "startup" ->
           [frames |-> <<Frame("R", 0, 0), Frame("S", <<"server_version", "16">>, 0),
                         Frame("K", <<7, 11>>, 0), ReadyFrame(0)>>,
            srv |-> [s EXCEPT !.mode = "ready"]]
      [] s.mode = "copyin" /\ m.ty = "CopyData" -> [frames |-> <<>>, srv |-> s]
      [] s.mode = "copyin" /\ m.ty = "Sync" -> [frames |-> <<>>, srv |-> s]
      [] s.mode = "copyin" /\ m.ty = "CopyDone" ->
           [frames |-> <<Frame("C", TagCopy, s.lit)>>
                       \o (IF s.ext THEN <<>> ELSE <<ReadyFrame(s.lit)>>),
            srv |-> [s EXCEPT !.mode = "ready"]]
      [] s.mode = "copyin" /\ m.ty \notin {"CopyData", "Sync", "CopyDone"} ->
           [frames |-> <<Frame("E", <<IF m.ty = "CopyFail" THEN ErrCopyFail ELSE ErrProtocol,
                                      s.lit>>, s.lit)>>
                       \o (IF s.ext THEN <<>> ELSE <<ReadyFrame(s.lit)>>),
            srv |-> [s EXCEPT !.mode = "ready", !.skip = s.ext]]
      [] s.mode = "ready" /\ m.ty = "Sync" ->
           [frames |-> <<ReadyFrame(m.lit)>>, srv |-> [s EXCEPT !.skip = FALSE]]
      [] s.mode = "ready" /\ s.skip /\ m.ty # "Sync" -> [frames |-> <<>>, srv |-> s]
      [] s.mode = "ready" /\ ~s.skip /\ m.ty = "Query" ->
           [frames |-> (IF m.kind \in {"select", "select2"} THEN <<Frame("T", "desc", m.lit)>> ELSE <<>>)
                       \o ExecFrames([kind |-> m.kind, lit |-> m.lit], m.lit, s.cancel)
                       \o (IF m.kind = "copyin" THEN <<>> ELSE <<ReadyFrame(m.lit)>>),
            srv |-> [s EXCEPT !.cancel = FALSE, !.ext = FALSE, !.lit = m.lit,
                              !.mode = IF m.kind = "copyin" THEN "copyin" ELSE "ready"]]
      [] s.mode = "ready" /\ ~s.skip /\ m.ty = "Parse" ->
           [frames |-> <<Frame("1", "", m.lit)>>,
            srv |-> [s EXCEPT !.stmt = [kind |-> m.kind, lit |-> m.lit]]]
      [] s.mode = "ready" /\ ~s.skip /\ m.ty = "Bind" ->
           IF s.stmt = NoStmt
           THEN [frames |-> <<Frame("E", <<ErrNoStmt, m.lit>>, m.lit)>>, srv |-> [s EXCEPT !.skip = TRUE]]
           ELSE [frames |-> <<Frame("2", "", m.lit)>>, srv |-> [s EXCEPT !.portal = s.stmt]]
      [] s.mode = "ready" /\ ~s.skip /\ m.ty = "DescribePortal" ->
           IF s.portal = NoStmt
           THEN [frames |-> <<Frame("E", <<ErrNoStmt, m.lit>>, m.lit)>>, srv |-> [s EXCEPT !.skip = TRUE]]
           ELSE [frames |-> DescribeFrames(s.portal.kind, m.lit), srv |-> s]
      [] s.mode = "ready" /\ ~s.skip /\ m.ty = "DescribeStatement" ->
           IF s.stmt = NoStmt
           THEN [frames |-> <<Frame("E", <<ErrNoStmt, m.lit>>, m.lit)>>, srv |-> [s EXCEPT !.skip = TRUE]]
           ELSE [frames |-> <<Frame("t", "params", m.lit)>> \o DescribeFrames(s.stmt.kind, m.lit),
                 srv |-> s]
      [] s.mode = "ready" /\ ~s.skip /\ m.ty = "Execute" ->
           [frames |-> ExecFrames(s.portal, m.lit, s.cancel),
            srv |-> [s EXCEPT !.cancel = FALSE, !.lit = m.lit,
                              !.skip = ExecFails(s.portal.kind, s.cancel),
                              !.ext = (s.portal.kind = "copyin"),
                              !.mode = IF s.portal.kind = "copyin" THEN "copyin" ELSE "ready",
                              !.portal = NoStmt]]
      [] OTHER -> [frames |-> <<>>, srv |-> s]   \* a copy message outside COPY is dropped

----------------------------------------------------------------------------
(* Return values: [op, ok, val, err].  val is the Option the call returned. *)

ErrInQuery == "another command is already in progress"
ErrNoCopyIn == "InvalidState: no COPY FROM STDIN in progress"
ErrNoCopyOut == "InvalidState: no COPY TO STDOUT in progress"
ErrNoSingleRow == "InvalidState: no command in progress"
ErrInvalidResponse == "InvalidResponse"

NoArg == [op |-> "new", kind |-> "none", lit |-> 0]

\* ctx: for a result, the command it was called for and what preceded that command
NoCtx == [cmd |-> NoArg, after |-> "", first |-> FALSE]

Ok(op, val) == [op |-> op, ok |-> TRUE, val |-> val, err |-> "", ctx |-> NoCtx]
Err(op, e) == [op |-> op, ok |-> FALSE, val |-> None, err |-> e, ctx |-> NoCtx]

\* a Result that carries an error of the client (exec family)
ErrResult(e) == [ResultDefault EXCEPT !.error_message = Some(<<e, 0>>)]

----------------------------------------------------------------------------
(* The private helpers of Connection *)

\* send_query_start's precondition
Startable(st) == st = IDLE \/ st = COPY_IN \/ st = COPY_OUT

\* The messages and the flags of each send operation, in the order sent.
SendQueryMsgs(a) == <<[m |-> Msg("Query", a.kind, a.lit), f |-> EXECUTE]>>

\* variant: a Sync after every step
SendQueryPreparedMsgs_syncs(a) ==
    <<[m |-> Msg("Bind", "", a.lit), f |-> BIND],
      [m |-> Msg("Sync", "", a.lit), f |-> IDLE],
      [m |-> Msg("DescribePortal", "", a.lit), f |-> DESCRIBE_ROW],
      [m |-> Msg("Sync", "", a.lit), f |-> IDLE],
      [m |-> Msg("Execute", "", a.lit), f |-> EXECUTE],
      [m |-> Msg("Sync", "", a.lit), f |-> IDLE]>>

SendQueryPreparedMsgs(a) ==
    <<[m |-> Msg("Bind", "", a.lit), f |-> BIND],
      [m |-> Msg("DescribePortal", "", a.lit), f |-> DESCRIBE_ROW],
      [m |-> Msg("Execute", "", a.lit), f |-> EXECUTE],
      [m |-> Msg("Sync", "", a.lit), f |-> IDLE]>>

\* variant: send_query_params inserts no flag
SendQueryParamsMsgs_unflagged(a) ==
    <<[m |-> Msg("Parse", a.kind, a.lit), f |-> IDLE]>>
    \o [i \in 1..Len(SendQueryPreparedMsgs(a)) |-> [SendQueryPreparedMsgs(a)[i] EXCEPT !.f = IDLE]]

SendQueryParamsMsgs(a) ==
    <<[m |-> Msg("Parse", a.kind, a.lit), f |-> PREPARE]>> \o SendQueryPreparedMsgs(a)

SendPrepareMsgs(a) ==
    <<[m |-> Msg("Parse", a.kind, a.lit), f |-> PREPARE],
      [m |-> Msg("Sync", "", a.lit), f |-> IDLE]>>

SendDescribePreparedMsgs(a) ==
    <<[m |-> Msg("DescribeStatement", "", a.lit), f |-> DESCRIBE_STATEMENT \cup DESCRIBE_ROW],
      [m |-> Msg("Sync", "", a.lit), f |-> IDLE]>>

SendDescribePortalMsgs(a) ==
    <<[m |-> Msg("DescribePortal", "", a.lit), f |-> DESCRIBE_ROW],
      [m |-> Msg("Sync", "", a.lit), f |-> IDLE]>>

RECURSIVE FlagsOf(_)
FlagsOf(ms) == IF ms = <<>> THEN IDLE ELSE insert(Head(ms).f, FlagsOf(Tail(ms)))

WireOf(ms) == [i \in 1..Len(ms) |-> ms[i].m]

\* Connection::send for each message of ms: write it, insert its flag.
Send(ms) ==
    /\ out' = out \o WireOf(ms)
    /\ nsent' = nsent + Len(ms)
    /\ async_status' = insert(async_status, FlagsOf(ms))

ExecOps == {"exec", "exec_params", "prepare", "exec_prepared"}

MsgsOf(a) ==
    CASE a.op \in {"send_query", "exec"} -> SendQueryMsgs(a)
      [] a.op \in {"send_query_params", "exec_params"} -> SendQueryParamsMsgs(a)
      [] a.op \in {"send_prepare", "prepare"} -> SendPrepareMsgs(a)
      [] a.op \in {"send_query_prepared", "exec_prepared"} -> SendQueryPreparedMsgs(a)
      [] a.op = "send_describe_prepared" -> SendDescribePreparedMsgs(a)
      [] a.op = "send_describe_portal" -> SendDescribePortalMsgs(a)

----------------------------------------------------------------------------
(* parse_input returns v = [ok, val, err] to its caller.                    *)

\* variant: a failed parse_input gives an empty Result
ResultOf_default(v) == IF v.ok THEN v.val ELSE Some(ResultDefault)

\* Connection::result: parse_input().unwrap_or_default()
ResultOf(v) == IF v.ok THEN v.val ELSE None

\* where the caller goes on when parse_input has returned v
NextPc(c, v) ==
    CASE c = "send_query_start" -> IF v.ok THEN "send" ELSE "ready"
      [] c = "consume_input" -> IF v.ok /\ IsSome(v.val) THEN "enter" ELSE "ready"
      [] c = "notifies" -> "pop"
      [] OTHER -> "ready"

\* History: how the receive that has just returned ended, for the next command.
\* ins: the flags a send on a second thread has inserted while a receive loop was running
GInit ==
    [cmd |-> NoArg, after |-> "", first |-> FALSE, ended |-> "", ndeliv |-> 0, ins |-> IDLE]

CtxOf(h) == [cmd |-> h.cmd, after |-> h.after, first |-> h.first]

HasError(v) == v.ok /\ IsSome(v.val) /\ IsSome(Unwrap(v.val).error_message)

NextG(c, a, v, st, h) ==
    CASE c = "result" ->
           [h EXCEPT !.first = FALSE, !.ended = IF HasError(v) THEN "error" ELSE ""]
      [] c = "put_copy_end" ->
           [h EXCEPT !.ended = IF v.ok /\ a.kind = "done" /\ st = IDLE THEN "copy_end" ELSE ""]
      [] OTHER -> h

\* nothing but ReadyForQuery and notifications is waiting to be read
Quiet(q) == \A i \in 1..Len(q) : q[i].ty \in {"Z", "A"}

\* the caller and the argument of the running call; none once it has returned
NextCaller(c, v) == IF NextPc(c, v) = "ready" THEN "none" ELSE c

NextArg(c, a, v) == IF NextPc(c, v) = "ready" THEN NoArg ELSE a

\* what the operation returns when parse_input has returned v (if it ends there)
NextRet(c, a, v, r, h) ==
    CASE c = "send_query_start" ->
           IF v.ok THEN r
           ELSE IF a.op \in ExecOps THEN Ok(a.op, Some(ErrResult(v.err))) ELSE Err(a.op, v.err)
      [] c = "result" -> [Ok(a.op, ResultOf(v)) EXCEPT !.ctx = h]
      [] c = "consume_input" ->
           IF ~v.ok THEN Err(a.op, v.err) ELSE IF IsSome(v.val) THEN r ELSE Ok(a.op, None)
      [] c = "notifies" -> r
      [] OTHER -> IF v.ok THEN Ok(a.op, None) ELSE Err(a.op, v.err)

----------------------------------------------------------------------------
(* Initial state: State::new(), the startup packet written, the handshake   *)
(* (the first parse_input) about to run.                                    *)

\* the threads that may call into the socket of one Connection
Threads == {1, 2}

\* a stream on which the peer has written nothing, held by nobody
NoStream == [sent |-> <<>>, wire |-> <<>>, avail |-> <<>>, eof |-> FALSE, lock |-> 0, pos |-> 0]

NoRet == [kind |-> "none", tag |-> 0, payload |-> <<>>]

RxIdle == [pc |-> "idle", need |-> 0, start |-> 0, hdr |-> <<>>, buf |-> <<>>, ret |-> NoRet]

Init ==
    /\ async_status = AsyncStatusDefault
    /\ result = None
    /\ notifies = <<>>
    /\ single_row_mode = FALSE
    /\ copy = None
    /\ be_key = <<0, 0>>
    /\ parameters = {}
    /\ out = <<Msg("Startup", "", 0)>>
    /\ nsent = 1
    /\ inb = <<>>
    /\ srv = SrvInit
    /\ pc = "enter"
    /\ caller = "connect"
    /\ arg = NoArg
    /\ l_status = IDLE
    /\ l_result = None
    /\ l_srm = FALSE
    /\ ret = Ok("new", None)
    /\ ncmd = 0
    /\ ncopy = 0
    /\ nnotify = 0
    /\ g = GInit
    /\ stream = NoStream
    /\ rx = [t \in Threads |-> RxIdle]

----------------------------------------------------------------------------
(* The backend *)

ServerStep ==
    /\ UNCHANGED socket
    /\ out # <<>>
    /\ LET r == Respond(Head(out), srv) IN
       /\ inb' = inb \o r.frames
       /\ srv' = r.srv
    /\ out' = Tail(out)
    /\ UNCHANGED <<state, nsent, pc, caller, arg, locals, ret, ncmd, ncopy, nnotify, g>>

\* another session's NOTIFY reaches this idle session
ServerNotify ==
    /\ UNCHANGED socket
    /\ out = <<>>
    /\ srv.mode = "ready" /\ ~srv.skip
    /\ nnotify < MaxNotify
    /\ nnotify' = nnotify + 1
    /\ inb' = Append(inb, Frame("A", [pid |-> 7, relname |-> "chan", extra |-> nnotify + 1], 0))
    /\ UNCHANGED <<state, out, nsent, srv, pc, caller, arg, locals, ret, ncmd, ncopy, g>>

\* a payload for each tag that Message::from decodes
PayloadOf(ty) ==
    CASE ty = "A" -> [pid |-> 7, relname |-> "chan", extra |-> 0]
      [] ty = "C" -> TagSelect
      [] ty \in {"d", "D"} -> <<0, 1>>
      [] ty = "E" -> <<ErrSql, 0>>
      [] ty \in {"G", "H"} -> "text"
      [] ty = "K" -> <<7, 11>>
      [] ty = "N" -> "notice"
      [] ty = "R" -> 0
      [] ty = "S" -> <<"server_version", "16">>
      [] ty = "t" -> "params"
      [] ty = "T" -> "desc"
      [] ty = "Z" -> "I"
      [] OTHER -> ""

\* the peer writes a frame of any tag that Message::from decodes
ServerAny ==
    /\ UNCHANGED socket
    /\ nnotify < MaxNotify
    /\ nnotify' = nnotify + 1
    /\ \E ty \in InboundTags : inb' = Append(inb, Frame(ty, PayloadOf(ty), 0))
    /\ UNCHANGED <<state, out, nsent, srv, pc, caller, arg, locals, ret, ncmd, ncopy, g>>

\* Cancel::request: the cancel packet reaches the backend before it runs the
\* command that is on its way.
CancelRequest ==
    /\ UNCHANGED socket
    /\ out # <<>>
    /\ srv.mode = "ready" /\ ~srv.cancel
    /\ srv' = [srv EXCEPT !.cancel = TRUE]
    /\ UNCHANGED <<state, out, nsent, inb, pc, caller, arg, locals, ret, ncmd, ncopy, nnotify, g>>

----------------------------------------------------------------------------
(* parse_input, one step per frame read *)

\* the loop guard fails on entry: write back and return the stored result
ParseEnterIdle ==
    /\ UNCHANGED socket
    /\ pc = "enter"
    /\ out = <<>>
    /\ async_status = IDLE
    /\ result' = WriteBackResult(async_status, result)
    /\ pc' = NextPc(caller, [ok |-> TRUE, val |-> result, err |-> ""])
    /\ ret' = NextRet(caller, arg, [ok |-> TRUE, val |-> result, err |-> ""], ret, CtxOf(g))
    /\ caller' = NextCaller(caller, [ok |-> TRUE, val |-> result, err |-> ""])
    /\ arg' = NextArg(caller, arg, [ok |-> TRUE, val |-> result, err |-> ""])
    /\ UNCHANGED <<async_status, notifies, single_row_mode, copy, be_key, parameters,
                   out, nsent, inb, srv, locals, ncmd, ncopy, nnotify>>
    /\ g' = NextG(caller, arg, [ok |-> TRUE, val |-> result, err |-> ""], async_status, g)

\* the snapshot of State taken before the loop
ParseEnterLoop ==
    /\ UNCHANGED socket
    /\ pc = "enter"
    /\ async_status # IDLE
    /\ l_status' = async_status
    /\ l_result' = result
    /\ l_srm' = single_row_mode
    /\ pc' = "loop"
    /\ UNCHANGED <<state, out, nsent, inb, srv, caller, arg, ret, ncmd, ncopy, nnotify, g>>

\* socket.receive()? fails: parse_input returns Err, nothing is written back
ParseRecvErr ==
    /\ UNCHANGED socket
    /\ pc = "loop"
    /\ inb # <<>>
    /\ ~MessageFrom(Head(inb)).ok
    /\ inb' = Tail(inb)
    /\ pc' = NextPc(caller, [ok |-> FALSE, val |-> None, err |-> ErrInvalidResponse])
    /\ ret' = NextRet(caller, arg, [ok |-> FALSE, val |-> None, err |-> ErrInvalidResponse], ret,
                    CtxOf(g))
    /\ caller' = NextCaller(caller, [ok |-> FALSE, val |-> None, err |-> ErrInvalidResponse])
    /\ arg' = NextArg(caller, arg, [ok |-> FALSE, val |-> None, err |-> ErrInvalidResponse])
    /\ l_status' = IDLE /\ l_result' = None /\ l_srm' = FALSE
    /\ UNCHANGED <<state, out, nsent, srv, ncmd, ncopy, nnotify>>
    /\ g' = NextG(caller, arg, [ok |-> FALSE, val |-> None, err |-> ErrInvalidResponse],
                  async_status, g)

\* one iteration of the loop that reaches unreachable!()
ParsePanic ==
    /\ UNCHANGED socket
    /\ pc = "loop"
    /\ inb # <<>>
    /\ MessageFrom(Head(inb)).ok
    /\ Unreachable(MessageFrom(Head(inb)))
    /\ inb' = Tail(inb)
    /\ pc' = "panic"
    /\ UNCHANGED <<state, out, nsent, srv, caller, arg, locals, ret, ncmd, ncopy, nnotify, g>>

\* one iteration of the loop; the loop goes on
ParseStep ==
    /\ UNCHANGED socket
    /\ pc = "loop"
    /\ inb # <<>>
    /\ LET m == MessageFrom(Head(inb))
           st == ArmStatus(m, l_status)
           res == ArmResult(m, l_result)
       IN /\ m.ok
          /\ ~Unreachable(m)
          /\ ~(Breaks(m, l_srm) \/ st = IDLE)
          /\ l_status' = st
          /\ l_result' = res
          /\ notifies' = ArmNotifies(m, notifies)
          /\ be_key' = ArmBeKey(m, be_key)
          /\ copy' = ArmCopy(m, copy)
          /\ parameters' = ArmParameters(m, parameters)
    /\ inb' = Tail(inb)
    /\ UNCHANGED <<async_status, result, single_row_mode, out, nsent, srv, pc, caller, arg,
                   l_srm, ret, ncmd, ncopy, nnotify, g>>

\* the last iteration of the loop (break, or the guard fails), and the write-back
ParseLast ==
    /\ UNCHANGED socket
    /\ pc = "loop"
    /\ inb # <<>>
    /\ LET m == MessageFrom(Head(inb))
           st == ArmStatus(m, l_status)
           res == ArmResult(m, l_result)
           v == [ok |-> TRUE, val |-> res, err |-> ""]
       IN /\ m.ok
          /\ ~Unreachable(m)
          /\ Breaks(m, l_srm) \/ st = IDLE
          /\ notifies' = ArmNotifies(m, notifies)
          /\ be_key' = ArmBeKey(m, be_key)
          /\ copy' = ArmCopy(m, copy)
          /\ parameters' = ArmParameters(m, parameters)
          /\ async_status' = st
          /\ result' = WriteBackResult(st, res)
          /\ pc' = NextPc(caller, v)
          /\ ret' = NextRet(caller, arg, v, ret, CtxOf(g))
          /\ caller' = NextCaller(caller, v)
          /\ arg' = NextArg(caller, arg, v)
          /\ g' = NextG(caller, arg, v, st, g)
    /\ inb' = Tail(inb)
    /\ l_status' = IDLE /\ l_result' = None /\ l_srm' = FALSE
    /\ UNCHANGED <<single_row_mode, out, nsent, srv, ncmd, ncopy, nnotify>>

----------------------------------------------------------------------------
(* The public operations.  A call starts when no other call of the client   *)
(* is running and the backend has read what was written before.             *)

CanCall == pc = "ready" /\ out = <<>>

\* variant: no operation checks the state
CallsSendQueryStart_none(op) == FALSE

\* which operations begin with self.send_query_start()?
CallsSendQueryStart(op) ==
    op \in {"send_query", "send_query_params", "send_prepare", "exec", "exec_params", "prepare"}

\* send_query, send_query_params, send_prepare, send_query_prepared,
\* send_describe_prepared, send_describe_portal and the exec family, up to the
\* point where send_query_start has checked the state.
Begin(a) ==
    /\ UNCHANGED socket
    /\ CanCall
    /\ ncmd < MaxCmds
    /\ ncmd' = ncmd + 1
    /\ IF CallsSendQueryStart(a.op) /\ ~Startable(async_status)
       THEN /\ ret' = IF a.op \in ExecOps THEN Ok(a.op, Some(ErrResult(ErrInQuery)))
                      ELSE Err(a.op, ErrInQuery)
            /\ UNCHANGED <<pc, caller, arg>>
       ELSE IF CallsSendQueryStart(a.op)
       THEN /\ pc' = "enter"                 \* drain pending input
            /\ caller' = "send_query_start"
            /\ arg' = a
            /\ UNCHANGED ret
       ELSE /\ pc' = "send"
            /\ caller' = "send"
            /\ arg' = a
            /\ UNCHANGED ret
    /\ UNCHANGED <<state, out, nsent, inb, srv, locals, ncopy, nnotify, g>>

SendOps == {"send_query", "send_query_params", "send_prepare"}

SendQuery == \E k \in Kinds : Begin([op |-> "send_query", kind |-> k, lit |-> ncmd + 1])

SendQueryParams == \E k \in Kinds : Begin([op |-> "send_query_params", kind |-> k, lit |-> ncmd + 1])

\* send_query with two statements in the command string
SendQueryMulti == Begin([op |-> "send_query", kind |-> "select2", lit |-> ncmd + 1])

SendPrepare == \E k \in Kinds : Begin([op |-> "send_prepare", kind |-> k, lit |-> ncmd + 1])

SendQueryPrepared == Begin([op |-> "send_query_prepared", kind |-> "", lit |-> ncmd + 1])

SendDescribePrepared == Begin([op |-> "send_describe_prepared", kind |-> "", lit |-> ncmd + 1])

SendDescribePortal == Begin([op |-> "send_describe_portal", kind |-> "", lit |-> ncmd + 1])

Exec == \E k \in Kinds : Begin([op |-> "exec", kind |-> k, lit |-> ncmd + 1])

ExecParams == \E k \in Kinds : Begin([op |-> "exec_params", kind |-> k, lit |-> ncmd + 1])

Prepare == \E k \in Kinds : Begin([op |-> "prepare", kind |-> k, lit |-> ncmd + 1])

ExecPrepared == Begin([op |-> "exec_prepared", kind |-> "", lit |-> ncmd + 1])

\* the rest of the send operation: single-row mode is reset by send_query_start,
\* the messages are written and their flags inserted; the exec family then
\* calls result().
SendBody ==
    /\ UNCHANGED socket
    /\ pc = "send"
    /\ single_row_mode' = IF CallsSendQueryStart(arg.op) THEN FALSE ELSE single_row_mode
    /\ Send(MsgsOf(arg))
    /\ IF arg.op \in ExecOps
       THEN pc' = "enter" /\ caller' = "result" /\ UNCHANGED <<ret, arg>>
       ELSE pc' = "ready" /\ ret' = Ok(arg.op, None) /\ caller' = "none" /\ arg' = NoArg
    /\ UNCHANGED <<result, notifies, copy, be_key, parameters, inb, srv, locals,
                   ncmd, ncopy, nnotify>>
    /\ g' = [g EXCEPT !.cmd = arg, !.first = TRUE, !.ended = "",
                      !.after = IF Quiet(inb) THEN g.ended ELSE "busy"]

\* result()
Result ==
    /\ UNCHANGED socket
    /\ CanCall
    /\ pc' = "enter"
    /\ caller' = "result"
    /\ arg' = [op |-> "result", kind |-> "", lit |-> 0]
    /\ UNCHANGED <<state, out, nsent, inb, srv, locals, ret, ncmd, ncopy, nnotify, g>>

\* result() called as soon as the send has returned, while the backend is still working
ResultInFlight ==
    /\ UNCHANGED socket
    /\ pc = "ready" /\ out # <<>>
    /\ pc' = "enter"
    /\ caller' = "result"
    /\ arg' = [op |-> "result", kind |-> "", lit |-> 0]
    /\ UNCHANGED <<state, out, nsent, inb, srv, locals, ret, ncmd, ncopy, nnotify, g>>

\* Socket::receive_exact takes stream.write() before its read loop and keeps the guard while
\* read_exact answers WouldBlock: a receive with nothing to read holds the lock
StreamWriteLocked == pc = "loop" /\ inb = <<>>

\* cancel() on a second thread: the peer address comes from Socket::peer_addr, which takes
\* stream.read() and so waits for a writer; backend pid and secret come from State
Cancel ==
    /\ UNCHANGED socket
    /\ caller # "connect"
    /\ ~StreamWriteLocked
    /\ ret' = Ok("cancel", Some(be_key))
    /\ UNCHANGED <<state, out, nsent, inb, srv, pc, caller, arg, locals, ncmd, ncopy, nnotify, g>>

\* A send operation without send_query_start, called on a second thread while the first is
\* in the loop of parse_input for result() and between two receives (receive_exact holds stream.write()
\* while it waits, and Socket::send needs it): each message is written and its flag
\* inserted into the stored AsyncStatus.
SendConcurrent ==
    /\ UNCHANGED socket
    /\ pc = "loop"
    /\ caller = "result"
    /\ ~StreamWriteLocked
    /\ g.ins = IDLE
    /\ ncmd < MaxCmds
    /\ ncmd' = ncmd + 1
    /\ \E op \in {"send_query_prepared", "send_describe_prepared", "send_describe_portal"} :
          LET ms == MsgsOf([op |-> op, kind |-> "", lit |-> ncmd + 1]) IN
          /\ Send(ms)
          /\ g' = [g EXCEPT !.ins = FlagsOf(ms)]
    /\ UNCHANGED <<result, notifies, single_row_mode, copy, be_key, parameters, inb, srv, pc,
                   caller, arg, locals, ret, ncopy, nnotify>>

\* consume_input(): while self.parse_input()?.is_some() {}
ConsumeInput ==
    /\ UNCHANGED socket
    /\ CanCall
    /\ pc' = "enter"
    /\ caller' = "consume_input"
    /\ arg' = [op |-> "consume_input", kind |-> "", lit |-> 0]
    /\ UNCHANGED <<state, out, nsent, inb, srv, locals, ret, ncmd, ncopy, nnotify, g>>

\* put_copy_data(buffer)
PutCopyData ==
    /\ UNCHANGED socket
    /\ CanCall
    /\ ncopy < MaxCopy
    /\ ncopy' = ncopy + 1
    /\ IF contains(async_status, COPY_IN)
       THEN /\ out' = Append(out, Msg("CopyData", "", 0))
            /\ nsent' = nsent + 1
            /\ ret' = Ok("put_copy_data", None)
       ELSE /\ ret' = Err("put_copy_data", ErrNoCopyIn)
            /\ UNCHANGED <<out, nsent>>
    /\ UNCHANGED <<state, inb, srv, pc, caller, arg, locals, ncmd, nnotify, g>>

\* put_copy_end(errormsg): CopyDone or CopyFail, then the backend's answer is read
PutCopyEnd ==
    /\ UNCHANGED socket
    /\ CanCall
    /\ \E fail \in BOOLEAN :
         IF contains(async_status, COPY_IN)
         THEN /\ out' = Append(out, Msg(IF fail THEN "CopyFail" ELSE "CopyDone", "", 0))
              /\ nsent' = nsent + 1
              /\ pc' = "enter"
              /\ caller' = "put_copy_end"
              /\ arg' = [op |-> "put_copy_end", kind |-> IF fail THEN "fail" ELSE "done",
                         lit |-> 0]
              /\ UNCHANGED ret
         ELSE /\ ret' = Err("put_copy_end", ErrNoCopyIn)
              /\ UNCHANGED <<out, nsent, pc, caller, arg>>
    /\ UNCHANGED <<state, inb, srv, locals, ncmd, ncopy, nnotify, g>>

\* copy_data(async)
CopyDataCall ==
    /\ UNCHANGED socket
    /\ CanCall
    /\ IF contains(async_status, COPY_OUT)
       THEN pc' = "copy_data" /\ caller' = "copy_data" /\ UNCHANGED ret
       ELSE ret' = Err("copy_data", ErrNoCopyOut) /\ UNCHANGED <<pc, caller>>
    /\ UNCHANGED <<state, out, nsent, inb, srv, arg, locals, ncmd, ncopy, nnotify, g>>

\* copy_data's loop: socket.receive()? until a CopyData chunk or the terminator
CopyDataStep ==
    /\ UNCHANGED socket
    /\ pc = "copy_data"
    /\ inb # <<>>
    /\ LET m == MessageFrom(Head(inb)) IN
       IF ~m.ok
       THEN /\ ret' = Err("copy_data", ErrInvalidResponse)
            /\ pc' = "ready" /\ caller' = "none"
            /\ UNCHANGED async_status
       ELSE IF m.name = "CopyData"
       THEN /\ ret' = Ok("copy_data", Some(m.val))
            /\ pc' = "ready" /\ caller' = "none"
            /\ UNCHANGED async_status
       ELSE IF m.name = "CopyDone"
       THEN /\ ret' = Ok("copy_data", None)
            /\ pc' = "ready" /\ caller' = "none"
            /\ async_status' = remove(async_status, COPY_OUT)
       ELSE UNCHANGED <<ret, pc, caller, async_status>>
    /\ inb' = Tail(inb)
    /\ UNCHANGED <<result, notifies, single_row_mode, copy, be_key, parameters, out, nsent,
                   srv, arg, locals, ncmd, ncopy, nnotify, g>>

\* notifies(): one drain of pending input, then the oldest notification
Notifies ==
    /\ UNCHANGED socket
    /\ CanCall
    /\ pc' = "enter"
    /\ caller' = "notifies"
    /\ arg' = [op |-> "notifies", kind |-> "", lit |-> 0]
    /\ UNCHANGED <<state, out, nsent, inb, srv, locals, ret, ncmd, ncopy, nnotify, g>>

NotifiesPop ==
    /\ UNCHANGED socket
    /\ pc = "pop"
    /\ pc' = "ready"
    /\ caller' = "none"
    /\ arg' = NoArg
    /\ IF notifies = <<>>
       THEN ret' = Ok("notifies", None) /\ UNCHANGED notifies
       ELSE ret' = Ok("notifies", Some(Head(notifies))) /\ notifies' = Tail(notifies)
    /\ UNCHANGED <<async_status, result, single_row_mode, copy, be_key, parameters, out,
                   nsent, inb, srv, locals, ncmd, ncopy, nnotify>>
    /\ g' = [g EXCEPT !.ndeliv = IF notifies = <<>> THEN @ ELSE @ + 1]

\* set_single_row_mode()
SetSingleRowMode ==
    /\ UNCHANGED socket
    /\ CanCall
    /\ IF contains(async_status, PREPARE) \/ contains(async_status, EXECUTE)
       THEN /\ single_row_mode' = TRUE
            /\ ret' = Ok("set_single_row_mode", None)
       ELSE /\ ret' = Err("set_single_row_mode", ErrNoSingleRow)
            /\ UNCHANGED single_row_mode
    /\ UNCHANGED <<async_status, result, notifies, copy, be_key, parameters, out, nsent, inb,
                   srv, pc, caller, arg, locals, ncmd, ncopy, nnotify, g>>

----------------------------------------------------------------------------

(* The engine: the backend and the receive loop *)

Engine ==
    \/ ServerStep
    \/ ParseEnterIdle
    \/ ParseEnterLoop
    \/ ParseRecvErr
    \/ ParseStep
    \/ ParseLast
    \/ SendBody

\* the asynchronous interface: every send_* operation, result(), cancellation
Next ==
    \/ Engine
    \/ CancelRequest
    \/ SendQuery
    \/ SendQueryParams
    \/ SendPrepare
    \/ SendQueryPrepared
    \/ SendDescribePrepared
    \/ SendDescribePortal
    \/ Result

Spec == Init /\ [][Next]_vars

\* the synchronous interface: the exec family, over an asynchronous send
NextExec ==
    \/ Engine
    \/ SendQuery
    \/ Exec
    \/ ExecParams
    \/ Prepare
    \/ ExecPrepared

SpecExec == Init /\ [][NextExec]_vars

\* COPY: exec, put_copy_data, put_copy_end, copy_data
NextCopy ==
    \/ Engine
    \/ Exec
    \/ PutCopyData
    \/ PutCopyEnd
    \/ CopyDataCall
    \/ CopyDataStep

SpecCopy == Init /\ [][NextCopy]_vars

\* notifications: a backend that raises them, notifies()
NextNotify ==
    \/ Engine
    \/ ServerNotify
    \/ SendQuery
    \/ Result
    \/ Notifies
    \/ NotifiesPop

SpecNotify == Init /\ [][NextNotify]_vars

\* single-row mode: set_single_row_mode between a send and its result() calls
NextRow ==
    \/ Engine
    \/ SendQuery
    \/ SendQueryParams
    \/ SetSingleRowMode
    \/ Result

SpecRow == Init /\ [][NextRow]_vars

\* cancellation from a second thread while result() is in flight
NextCancel ==
    \/ Engine
    \/ SendQuery
    \/ SendQueryParams
    \/ Result
    \/ ResultInFlight
    \/ Cancel
    \/ CancelRequest

SpecCancel == Init /\ [][NextCancel]_vars

\* consume_input between a send and its result()
NextConsume ==
    \/ Engine
    \/ SendQuery
    \/ ConsumeInput
    \/ Result

SpecConsume == Init /\ [][NextConsume]_vars

\* send_query("SELECT ..")
SendSelect == Begin([op |-> "send_query", kind |-> "select", lit |-> ncmd + 1])

\* a session that listens: notifications arrive, the client polls with consume_input and
\* notifies, and may send a query
NextListen ==
    \/ ServerStep
    \/ ServerNotify
    \/ ParseEnterIdle
    \/ ParseEnterLoop
    \/ ParseStep
    \/ ParseLast
    \/ SendBody
    \/ SendSelect
    \/ ConsumeInput
    \/ Notifies
    \/ NotifiesPop

\* a running call goes on when it can, and the client polls again and again
SpecListen ==
    /\ Init
    /\ [][NextListen]_vars
    /\ WF_vars(ServerStep \/ ParseEnterIdle \/ ParseEnterLoop \/ ParseStep \/ ParseLast
                 \/ SendBody \/ NotifiesPop)
    /\ SF_vars(ConsumeInput)
    /\ SF_vars(Notifies)

\* the handshake and result() calls while the peer writes frames of every decodable tag
NextTags ==
    \/ ServerStep
    \/ ServerAny
    \/ ParseEnterIdle
    \/ ParseEnterLoop
    \/ ParseStep
    \/ ParseLast
    \/ ParsePanic
    \/ Result

SpecTags == Init /\ [][NextTags]_vars

\* two threads on one Connection: result() on the first, a send on the second
NextRace ==
    \/ Engine
    \/ SendQuery
    \/ Result
    \/ SendConcurrent

SpecRace == Init /\ [][NextRace]_vars

\* simple queries of one or of two statements
NextMulti ==
    \/ Engine
    \/ SendQuery
    \/ SendQueryMulti
    \/ Result

SpecMulti == Init /\ [][NextMulti]_vars

\* a client that sends simple queries and calls result() for them
NextLive ==
    \/ Engine
    \/ SendQuery
    \/ Result

\* the backend answers what it has read, and a running call goes on whenever it can:
\* receive returns as soon as a frame is there
SpecLive == Init /\ [][NextLive]_vars /\ WF_vars(Engine)

----------------------------------------------------------------------------
(* The wire format: Payload, Message::payload for Bind, DataRow decoding.   *)
(* A buffer is a sequence of bytes; a Payload is the part not yet eaten.    *)

Bytes == {0, 102, 111}     \* NUL, "f", "o"

RECURSIVE SeqsUpTo(_, _)
SeqsUpTo(S, n) ==
    IF n = 0 THEN {<<>>}
    ELSE LET T == SeqsUpTo(S, n - 1) IN T \cup {Append(t, x) : t \in T, x \in S}

\* ToPayload for i16 and i32: to_be_bytes
I16Bytes(n) == <<(n \div 256) % 256, n % 256>>

I32Bytes(n) == <<(n \div 16777216) % 256, (n \div 65536) % 256, (n \div 256) % 256, n % 256>>

\* FromPayload for i16 and i32: from_be_bytes
I16From(b) == (IF b[1] >= 128 THEN b[1] - 256 ELSE b[1]) * 256 + b[2]

I32From(b) ==
    (IF b[1] >= 128 THEN b[1] - 256 ELSE b[1]) * 16777216 + b[2] * 65536 + b[3] * 256 + b[4]

\* Payload::eat(n) and what is left after it
eat(p, n) == SubSeq(p, 1, n)

after(p, n) == SubSeq(p, n + 1, Len(p))

FormatText == 0
FormatBinary == 1

\* param_formats.get(n) is Some(Format::Binary)
IsBinary(formats, n) == n <= Len(formats) /\ formats[n] = FormatBinary

\* variant: a text value is written whole
ParamLen_whole(param, formats, n) == Len(param)

\* the length written for a parameter: the last byte of a text value is dropped
ParamLen(param, formats, n) == IF IsBinary(formats, n) THEN Len(param) ELSE Len(param) - 1

\* param.len() - 1 on an empty value, and the slice that follows, panic
BindPanics(values, formats) ==
    \E n \in 1..Len(values) : IsSome(values[n]) /\ ParamLen(Unwrap(values[n]), formats, n) < 0

RECURSIVE BindParams(_, _, _)
BindParams(values, formats, n) ==
    IF n > Len(values) THEN <<>>
    ELSE (IF IsSome(values[n])
          THEN LET paramlen == ParamLen(Unwrap(values[n]), formats, n) IN
               I32Bytes(paramlen) \o SubSeq(Unwrap(values[n]), 1, paramlen)
          ELSE I32Bytes(-1))
         \o BindParams(values, formats, n + 1)

RECURSIVE BindFormats(_, _)
BindFormats(formats, n) ==
    IF n > Len(formats) THEN <<>> ELSE I16Bytes(formats[n]) \o BindFormats(formats, n + 1)

\* Message::payload for Bind, with the unnamed portal and the unnamed statement
BindPayload(values, formats, result_format) ==
    <<0>> \o <<0>>
    \o I16Bytes(Len(formats)) \o BindFormats(formats, 1)
    \o I16Bytes(Len(values)) \o BindParams(values, formats, 1)
    \o I16Bytes(1) \o I16Bytes(result_format)

\* The backend reads the first parameter of a Bind message.
BackendParam(p) ==
    LET p1 == after(p, 2)                                  \* portal, statement
        nf == I16From(eat(p1, 2))
        p2 == after(p1, 2 + 2 * nf)
        p3 == after(p2, 2)                                 \* number of parameters
        len == I32From(eat(p3, 4))
    IN IF len < 0 THEN None ELSE Some(eat(after(p3, 4), len))

\* The backend reads k parameters of a Bind message: length, then the bytes.
RECURSIVE ReadParams(_, _)
ReadParams(p, k) ==
    IF k <= 0 THEN <<>>
    ELSE LET paramlen == I32From(eat(p, 4)) IN
         IF paramlen < 0 THEN <<None>> \o ReadParams(after(p, 4), k - 1)
         ELSE <<Some(eat(after(p, 4), paramlen))>> \o ReadParams(after(p, 4 + paramlen), k - 1)

\* all the parameters of a Bind message as the backend reads them
BackendParams(p) ==
    LET p1 == after(p, 2)                                  \* portal, statement
        nf == I16From(eat(p1, 2))
        p2 == after(p1, 2 + 2 * nf)
    IN ReadParams(after(p2, 2), I16From(eat(p2, 2)))

\* The format the backend takes for parameter n (protocol 3.0, Bind): no code means text
\* for all, one code holds for all, otherwise each parameter has its own.
BackendFormat(formats, n) ==
    IF Len(formats) = 0 THEN FormatText
    ELSE IF Len(formats) = 1 THEN formats[1]
    ELSE formats[n]

\* Message::ty for the messages that Message::payload encodes: the tag byte, or None
MessageTy(m) ==
    CASE m.name = "Bind" -> Some(66)
      [] m.name = "CancelRequest" -> None
      [] m.name = "CloseComplete" -> Some(51)
      [] m.name = "CopyData" -> Some(100)
      [] m.name = "CopyDone" -> Some(99)
      [] m.name = "CopyFail" -> Some(102)
      [] m.name \in {"DescribePortal", "DescribeStatement"} -> Some(68)
      [] m.name = "Execute" -> Some(69)
      [] m.name = "Parse" -> Some(80)
      [] m.name = "Query" -> Some(81)
      [] m.name = "Startup" -> None
      [] m.name = "Sync" -> Some(83)

\* variant: the length field counts the payload only
MessageLen_payload(p) == Len(p)

\* Message::len: payload.len() as i32 + 4
MessageLen(p) == Len(p) + 4

RECURSIVE I32List(_, _)
I32List(ns, i) == IF i > Len(ns) THEN <<>> ELSE I32Bytes(ns[i]) \o I32List(ns, i + 1)

\* Message::payload. m.stmt is a statement or portal name (empty for None), m.s a
\* query, a data block or an error message, m.n the integers of the message.
payload(m) ==
    CASE m.name = "Bind" -> BindPayload(m.values, m.formats, m.n[1])
      [] m.name = "CancelRequest" -> I32Bytes(m.n[1]) \o I32Bytes(m.n[2]) \o I32Bytes(m.n[3])
      [] m.name = "CloseComplete" -> <<>>
      [] m.name = "CopyData" -> m.s
      [] m.name = "CopyFail" -> m.s \o <<0>>
      [] m.name = "CopyDone" -> <<>>
      [] m.name = "DescribeStatement" -> <<83>> \o m.stmt \o <<0>>
      [] m.name = "DescribePortal" -> <<80>> \o m.stmt \o <<0>>
      [] m.name = "Execute" -> <<0>> \o I32Bytes(0)
      [] m.name = "Parse" -> m.stmt \o <<0>> \o m.s \o <<0>> \o I16Bytes(Len(m.n)) \o I32List(m.n, 1)
      [] m.name = "Query" -> m.s \o <<0>>
      [] m.name = "Startup" -> <<0, 3, 0, 0>> \o m.stmt \o <<0>> \o m.s \o <<0>> \o <<0>>
      [] m.name = "Sync" -> <<>>

\* Message::to_bytes
to_bytes(m) == MessageTy(m) \o I32Bytes(MessageLen(payload(m))) \o payload(m)

RECURSIVE DataRowFields(_, _)
DataRowFields(fields, n) ==
    IF n > Len(fields) THEN <<>>
    ELSE (IF IsSome(fields[n])
          THEN I32Bytes(Len(Unwrap(fields[n]))) \o Unwrap(fields[n])
          ELSE I32Bytes(-1))
         \o DataRowFields(fields, n + 1)

\* The backend writes a DataRow: the number of fields, then length and bytes of each.
DataRowPayload(fields) == I16Bytes(Len(fields)) \o DataRowFields(fields, 1)

\* variant: an empty field is read as NULL
HasValue_positive(fieldlen) == fieldlen > 0

\* `if fieldlen >= 0`
HasValue(fieldlen) == fieldlen >= 0

\* the loop of DataRow::from: [data, rest] after k more fields
RECURSIVE DataRowLoop(_, _, _)
DataRowLoop(p, k, data) ==
    IF k = 0 THEN [data |-> data, rest |-> p]
    ELSE LET fieldlen == I32From(eat(p, 4)) IN
         IF HasValue(fieldlen)
         THEN DataRowLoop(after(p, 4 + fieldlen), k - 1,
                          Append(data, Some(eat(after(p, 4), fieldlen))))
         ELSE DataRowLoop(after(p, 4), k - 1, Append(data, None))

\* impl From<&mut Payload> for DataRow
DataRowFrom(p) == DataRowLoop(after(p, 2), I16From(eat(p, 2)), <<>>)

Values == SeqsUpTo(Bytes, MaxParamLen)

OptValues == {None} \cup {Some(v) : v \in Values}

\* a DataRow field: NULL, empty, or a few bytes
OptFields == {None, Some(<<>>), Some(<<102>>), Some(<<0, 111>>), Some(<<111, 102, 0>>)}

Encodable(name, stmt, s, n) ==
    [name |-> name, stmt |-> stmt, s |-> s, n |-> n, values |-> <<>>, formats |-> <<>>]

NoMsg == Encodable("", <<>>, <<>>, <<>>)

\* the cancel request code, 1234 in the high and 5678 in the low 16 bits
CancelCode == 80877102

BeKeys == {0, 7, 258, 16909060, -1, -2147483647}

Names == {<<>>, <<102>>, <<102, 111>>}

Texts == {<<>>, <<111>>, <<102, 111, 111>>}

Messages ==
    {Encodable("CancelRequest", <<>>, <<>>, <<CancelCode, pid, secret>>) : pid \in BeKeys, secret \in BeKeys}
    \cup {Encodable(name, <<>>, s, <<>>) : name \in {"Query", "CopyData", "CopyFail"}, s \in Texts}
    \cup {Encodable(name, stmt, <<>>, <<>>) : name \in {"DescribeStatement", "DescribePortal"}, stmt \in Names}
    \cup {Encodable("Parse", stmt, s, n) : stmt \in Names, s \in Texts, n \in {<<>>, <<25>>, <<23, 25>>}}
    \cup {Encodable("Startup", <<102>>, s, <<>>) : s \in Texts}
    \cup {Encodable(name, <<>>, <<>>, <<>>) : name \in {"Sync", "Execute", "CopyDone", "CloseComplete"}}
    \cup {[Encodable("Bind", <<>>, <<>>, <<rf>>) EXCEPT !.values = <<v>>, !.formats = f] :
            rf \in {FormatText, FormatBinary},
            v \in {None, Some(<<102, 0>>)},
            f \in {<<>>, <<FormatBinary>>}}

ToBytesInputs ==
    {[op |-> "to_bytes", values |-> <<>>, formats |-> <<>>, fields |-> <<>>, msg |-> m] :
        m \in Messages}

BindInputs ==
    {[op |-> "bind", values |-> <<v>>, formats |-> f, fields |-> <<>>, msg |-> NoMsg] :
        v \in OptValues, f \in {<<>>, <<FormatText>>, <<FormatBinary>>}}

\* two parameters in one Bind, and the parameter of the test exec_params, b"fooo\0"
BindMore ==
    {[op |-> "bind", values |-> vs, formats |-> f, fields |-> <<>>, msg |-> NoMsg] :
        vs \in {<<Some(<<102, 111, 111, 111, 0>>)>>}
               \cup {<<a, b>> : a, b \in {None, Some(<<102, 0>>), Some(<<111>>)}},
        f \in {<<>>, <<FormatText>>, <<FormatBinary>>,
               <<FormatBinary, FormatText>>, <<FormatText, FormatBinary>>}}

DataRowInputs ==
    {[op |-> "data_row", values |-> <<>>, formats |-> <<>>, fields |-> fs, msg |-> NoMsg] :
        fs \in SeqsUpTo(OptFields, MaxFields)}

InitWire ==
    /\ async_status = IDLE
    /\ result = None
    /\ notifies = <<>>
    /\ single_row_mode = FALSE
    /\ copy = None
    /\ be_key = <<0, 0>>
    /\ parameters = {}
    /\ out = <<>>
    /\ nsent = 0
    /\ inb = <<>>
    /\ srv = SrvInit
    /\ pc = "wire"
    /\ caller = "none"
    /\ arg \in BindInputs \cup DataRowInputs \cup ToBytesInputs \cup BindMore
    /\ l_status = IDLE
    /\ l_result = None
    /\ l_srm = FALSE
    /\ ret = Ok("new", None)
    /\ ncmd = 0
    /\ ncopy = 0
    /\ nnotify = 0
    /\ g = GInit
    /\ stream = NoStream
    /\ rx = [t \in Threads |-> RxIdle]

\* send_query_prepared writes the Bind message for "SELECT $1"
WireBind ==
    /\ UNCHANGED socket
    /\ pc = "wire"
    /\ arg.op = "bind"
    /\ IF BindPanics(arg.values, arg.formats)
       THEN pc' = "panic" /\ UNCHANGED <<out, nsent>>
       ELSE /\ out' = BindPayload(arg.values, arg.formats, FormatText)
            /\ nsent' = nsent + 1
            /\ pc' = "sent"
    /\ UNCHANGED <<state, inb, srv, caller, arg, locals, ret, ncmd, ncopy, nnotify, g>>

\* the backend executes "SELECT $1": one row, one field, the parameter it read
WireSelect ==
    /\ UNCHANGED socket
    /\ pc = "sent"
    /\ inb' = DataRowPayload(<<BackendParam(out)>>)
    /\ out' = <<>>
    /\ pc' = "received"
    /\ UNCHANGED <<state, nsent, srv, caller, arg, locals, ret, ncmd, ncopy, nnotify, g>>

\* the backend sends a row with the fields of arg
WireRow ==
    /\ UNCHANGED socket
    /\ pc = "wire"
    /\ arg.op = "data_row"
    /\ inb' = DataRowPayload(arg.fields)
    /\ pc' = "received"
    /\ UNCHANGED <<state, out, nsent, srv, caller, arg, locals, ret, ncmd, ncopy, nnotify, g>>

\* Message::from decodes the DataRow; the call returns its fields
WireDataRow ==
    /\ UNCHANGED socket
    /\ pc = "received"
    /\ LET d == DataRowFrom(inb) IN
       /\ ret' = Ok("data_row", d.data)
       /\ inb' = d.rest
    /\ pc' = "done"
    /\ UNCHANGED <<state, out, nsent, srv, caller, arg, locals, ncmd, ncopy, nnotify, g>>

\* Socket::send: message.to_bytes() is what is written to the stream
WireToBytes ==
    /\ UNCHANGED socket
    /\ pc = "wire"
    /\ arg.op = "to_bytes"
    /\ out' = to_bytes(arg.msg)
    /\ nsent' = nsent + 1
    /\ pc' = "encoded"
    /\ UNCHANGED <<state, inb, srv, caller, arg, locals, ret, ncmd, ncopy, nnotify, g>>

NextWire ==
    \/ WireBind
    \/ WireSelect
    \/ WireRow
    \/ WireDataRow
    \/ WireToBytes

SpecWire == InitWire /\ [][NextWire]_vars

----------------------------------------------------------------------------
(* The socket: Socket::receive and Socket::receive_exact over a             *)
(* non-blocking TcpStream, byte by byte.                                    *)
(*   stream.sent   everything the peer writes on this connection (history)  *)
(*   stream.wire   the bytes of it that have not arrived yet                *)
(*   stream.avail  the bytes that have arrived and were not read            *)
(*   stream.eof    the peer closes the stream after stream.sent             *)
(*   stream.lock   the thread that holds stream.write(), or 0               *)
(*   stream.pos    number of bytes read from the stream so far              *)

\* the tags Message::from has an arm for: 1 2 3 A C d D E G H I K N R S t T Z
ImplementedTags == {49, 50, 51, 65, 67, 100, 68, 69, 71, 72, 73, 75, 78, 82, 83, 116, 84, 90}

\* position of the first NUL of buf, 0 if there is none (Payload::find)
RECURSIVE find(_, _)
find(buf, i) == IF i > Len(buf) THEN 0 ELSE IF buf[i] = 0 THEN i ELSE find(buf, i + 1)

\* String::from_payload: the bytes it eats, the NUL included; none without a NUL
StringEat(buf) == find(buf, 1)

\* Notice::from: a field code and a string until the code 0; -1 when take(1) is past the end
RECURSIVE NoticeEat(_)
NoticeEat(buf) ==
    IF buf = <<>> THEN -1
    ELSE IF buf[1] = 0 THEN 1
    ELSE LET n == 1 + StringEat(after(buf, 1))
             r == NoticeEat(after(buf, n))
         IN IF r < 0 THEN -1 ELSE n + r

\* the loop of DataRow::from, counting: -1 when eat is past the end
RECURSIVE FieldsEat(_, _)
FieldsEat(p, k) ==
    IF k <= 0 THEN 0
    ELSE IF Len(p) < 4 THEN -1
    ELSE LET fieldlen == I32From(eat(p, 4))
             n == IF HasValue(fieldlen) THEN 4 + fieldlen ELSE 4
             r == IF n > Len(p) THEN -1 ELSE FieldsEat(after(p, n), k - 1)
         IN IF r < 0 THEN -1 ELSE n + r

DataRowEat(p) ==
    IF Len(p) < 2 THEN -1
    ELSE LET r == FieldsEat(after(p, 2), I16From(eat(p, 2)))
         IN IF r < 0 THEN -1 ELSE 2 + r

\* How many bytes of the payload the arm of Message::from reads; -1 when it slices past
\* the end (Payload::eat panics).  Arms of tags that no input below uses read it whole.
Consumed(ty, buf) ==
    CASE ty \in {49, 50, 51, 73} -> 0
      [] ty = 75 -> IF Len(buf) >= 8 THEN 8 ELSE -1
      [] ty = 82 -> IF Len(buf) >= 4 THEN 4 ELSE -1
      [] ty = 90 -> IF Len(buf) = 1 THEN 1 ELSE 0
      [] ty = 67 -> find(buf, 1)
      [] ty = 68 -> DataRowEat(buf)
      [] ty = 69 -> NoticeEat(buf)
      [] ty = 83 -> StringEat(buf) + StringEat(after(buf, StringEat(buf)))
      [] OTHER -> Len(buf)

\* variant: every tag has an arm
HasArm_all(ty) == TRUE

\* does the match of Message::from have an arm for ty?
HasArm(ty) == ty \in ImplementedTags

\* Message::from(ty, buf): the match, then assert!(payload.is_empty())
Decoded(ty, buf) ==
    IF ~HasArm(ty) THEN [kind |-> "InvalidResponse", tag |-> ty, payload |-> buf]
    ELSE IF Consumed(ty, buf) # Len(buf) THEN [kind |-> "panic", tag |-> ty, payload |-> buf]
    ELSE [kind |-> "ok", tag |-> ty, payload |-> buf]

\* frames the peer may write: ReadyForQuery, ParseComplete, BackendKeyData, NoData ("n",
\* no arm), a frame of tag "n" with a payload
WellFormed ==
    {<<90, 0, 0, 0, 5, 73>>, <<49, 0, 0, 0, 4>>,
     <<75, 0, 0, 0, 12, 0, 0, 0, 7, 0, 0, 0, 11>>,
     <<110, 0, 0, 0, 4>>, <<110, 0, 0, 0, 6, 102, 111>>}

\* malformed frames: a length below 4, a payload too short, too long, without its NUL
Malformed ==
    {<<90, 0, 0, 0, 3>>, <<75, 0, 0, 0, 8, 0, 0, 0, 7>>, <<49, 0, 0, 0, 5, 0>>,
     <<67, 0, 0, 0, 6, 102, 111>>}

SockInputs ==
    WellFormed \cup Malformed
    \cup {f \o h : f \in WellFormed, h \in {<<90, 0, 0, 0, 5, 73>>, <<49, 0, 0, 0, 4>>}}

InitSock ==
    /\ async_status = IDLE
    /\ result = None
    /\ notifies = <<>>
    /\ single_row_mode = FALSE
    /\ copy = None
    /\ be_key = <<0, 0>>
    /\ parameters = {}
    /\ out = <<>>
    /\ nsent = 0
    /\ inb = <<>>
    /\ srv = SrvInit
    /\ pc = "ready"
    /\ caller = "none"
    /\ arg = NoArg
    /\ l_status = IDLE
    /\ l_result = None
    /\ l_srm = FALSE
    /\ ret = Ok("new", None)
    /\ ncmd = 0
    /\ ncopy = 0
    /\ nnotify = 0
    /\ g = GInit
    /\ \E bytes \in SockInputs, eof \in BOOLEAN :
          stream = [NoStream EXCEPT !.sent = bytes, !.wire = bytes, !.eof = eof]
    /\ rx = [t \in Threads |-> RxIdle]

\* some of the bytes on their way arrive
Arrive ==
    /\ \E k \in 1..Len(stream.wire) :
          stream' = [stream EXCEPT !.avail = @ \o SubSeq(stream.wire, 1, k),
                                   !.wire = SubSeq(@, k + 1, Len(@))]
    /\ UNCHANGED <<engine, rx>>

\* Socket::receive is called: self.receive_exact(5) comes first
ReceiveCall(t) ==
    /\ rx[t].pc \in {"idle", "done"}
    /\ rx' = [rx EXCEPT ![t] = [RxIdle EXCEPT !.pc = "header", !.need = 5]]
    /\ UNCHANGED <<engine, stream>>

\* receive, once receive_exact(5) has returned buf: the tag, the length, the next call
AfterHeader(r, buf) ==
    IF I32From(SubSeq(buf, 2, 5)) - 4 < 0
    THEN [r EXCEPT !.pc = "panic", !.hdr = buf, !.buf = buf]    \* vec![0; len as usize]
    ELSE [r EXCEPT !.pc = "payload", !.hdr = buf, !.buf = buf,
                   !.need = I32From(SubSeq(buf, 2, 5)) - 4]

\* receive, once the payload has been read: Message::from(ty, &payload)?
AfterPayload(r, buf) ==
    [r EXCEPT !.pc = IF Decoded(r.hdr[1], buf).kind = "panic" THEN "panic" ELSE "done",
              !.buf = buf, !.ret = Decoded(r.hdr[1], buf)]

\* One pass of the loop of receive_exact: stream.write() is taken on the first pass and
\* kept; read_exact(&mut buf[..]) fills the buffer from its start.  It takes what has
\* arrived; with less than the buffer it fails with WouldBlock (`continue`: the bytes
\* just taken are overwritten by the next pass) or, once the peer has closed, with
\* UnexpectedEof (returned as Error::Io).
ReadExact(t) ==
    /\ rx[t].pc \in {"header", "payload"}
    /\ stream.lock \in {0, t}
    /\ IF Len(stream.avail) >= rx[t].need
       THEN /\ stream' = [stream EXCEPT !.avail = SubSeq(@, rx[t].need + 1, Len(@)),
                                        !.pos = @ + rx[t].need, !.lock = 0]
            /\ rx' = [rx EXCEPT ![t] =
                        IF rx[t].pc = "header"
                        THEN AfterHeader(rx[t], SubSeq(stream.avail, 1, rx[t].need))
                        ELSE AfterPayload(rx[t], SubSeq(stream.avail, 1, rx[t].need))]
       ELSE IF stream.wire = <<>> /\ stream.eof
       THEN /\ stream' = [stream EXCEPT !.avail = <<>>, !.pos = @ + Len(stream.avail),
                                        !.lock = 0]
            /\ rx' = [rx EXCEPT ![t].pc = "done",
                                ![t].ret = [kind |-> "Io", tag |-> 0, payload |-> <<>>]]
       ELSE /\ stream' = [stream EXCEPT !.avail = <<>>, !.pos = @ + Len(stream.avail),
                                        !.lock = t]
            /\ rx' = [rx EXCEPT ![t].start = IF stream.lock = t THEN @ ELSE stream.pos]
    /\ UNCHANGED engine

NextSock ==
    \/ Arrive
    \/ \E t \in Threads : ReceiveCall(t)
    \/ \E t \in Threads : ReadExact(t)

SpecSock == InitSock /\ [][NextSock]_vars

----------------------------------------------------------------------------
(* The codec both ways: what Message::from makes of the tag and the payload *)
(* that to_bytes has written.                                               *)

\* `buf[0] as char` for the tags of the match of Message::from
TagChar(b) ==
    CASE b = 49 -> "1" [] b = 50 -> "2" [] b = 51 -> "3" [] b = 65 -> "A" [] b = 67 -> "C"
      [] b = 100 -> "d" [] b = 68 -> "D" [] b = 69 -> "E" [] b = 71 -> "G" [] b = 72 -> "H"
      [] b = 73 -> "I" [] b = 75 -> "K" [] b = 78 -> "N" [] b = 82 -> "R" [] b = 83 -> "S"
      [] b = 116 -> "t" [] b = 84 -> "T" [] b = 90 -> "Z"
      [] OTHER -> "?"

\* Message::from(ty, payload) on the tag and the payload of the message just encoded; a
\* message without a tag (Startup, CancelRequest) has nothing to hand in as ty
WireFrom ==
    /\ UNCHANGED socket
    /\ pc = "encoded"
    /\ IsSome(MessageTy(arg.msg))
    /\ LET tag == out[1]
           buf == SubSeq(out, 6, Len(out))
           d == Decoded(tag, buf)
       IN /\ pc' = IF d.kind = "panic" THEN "panic" ELSE "done"
          /\ ret' = IF d.kind = "ok"
                    THEN Ok("from", Some([name |-> MessageName(TagChar(tag)), payload |-> buf]))
                    ELSE IF d.kind = "InvalidResponse" THEN Err("from", ErrInvalidResponse)
                    ELSE ret
    /\ UNCHANGED <<state, out, nsent, inb, srv, caller, arg, locals, ncmd, ncopy, nnotify, g>>

NextCodec ==
    \/ WireToBytes
    \/ WireFrom

SpecCodec == InitWire /\ [][NextCodec]_vars

----------------------------------------------------------------------------
(* Properties *)

\* C1: send_query, send_query_params and send_prepare, called while the
\* status is not IDLE, {COPY_IN} or {COPY_OUT}, fail with "another command is
\* already in progress", write nothing to the socket and leave State as it was.
C1_GateRejects ==
    [][(SendQuery \/ SendQueryParams \/ SendPrepare) /\ ~Startable(async_status)
       => /\ ~ret'.ok
          /\ ret'.err = ErrInQuery
          /\ ret'.op \in SendOps
          /\ pc' = "ready"
          /\ nsent' = nsent
          /\ out' = out
          /\ state' = state]_vars

\* a send_prepare was refused while an earlier Parse was still outstanding
C1_Witness ==
    /\ ret.op = "send_prepare"
    /\ ~ret.ok
    /\ ret.err = ErrInQuery
    /\ contains(async_status, PREPARE)
    /\ pc = "ready"

\* C2: every send operation writes its messages only when the status is IDLE,
\* {COPY_IN} or {COPY_OUT}: no operation sends while a command is outstanding.
C2_EverySendGated == pc = "send" => Startable(async_status)

\* C3: the receive loop that reads an ErrorResponse sets the status to IDLE
\* whatever flags were set, reads nothing more in that call, and result()
\* returns a Result whose error is the one the backend sent.
C3_ErrorEndsCommand ==
    [][pc = "loop" /\ inb # <<>> /\ Head(inb).ty = "E" /\ inb' = Tail(inb)
       => /\ async_status' = IDLE
          /\ pc' # "loop"
          /\ caller = "result"
               => /\ ret'.op = arg.op
                  /\ ret'.ok
                  /\ IsSome(ret'.val)
                  /\ Unwrap(ret'.val).error_message = Some(Head(inb).val)]_vars

\* result() has returned the backend's error and the connection is idle
C3_Witness ==
    /\ ret.op = "result"
    /\ HasError(ret)
    /\ Unwrap(Unwrap(ret.val).error_message)[1] = ErrSql
    /\ async_status = IDLE
    /\ pc = "ready"

\* the Result r is the backend's answer to command c and to nothing else
OwnResponse(r, c) ==
    /\ \A i \in 1..Len(r.rows) : r.rows[i][1] = c.lit
    /\ IsSome(r.error_message) => Unwrap(r.error_message)[2] = c.lit
    /\ c.kind = "error" => IsSome(r.error_message)
    /\ c.kind = "select" /\ ~IsSome(r.error_message)
         => /\ r.rows = [i \in 1..NRows |-> <<c.lit, i>>]
            /\ r.cmd_status = Some(TagSelect)
            /\ r.status = None
    /\ c.kind = "copyin" /\ ~IsSome(r.error_message) => r.status = Some("CopyIn")
    /\ c.kind = "copyout" /\ ~IsSome(r.error_message) => r.status = Some("CopyOut")

C5_ResultAtIdle ==
    [][pc = "enter" /\ caller = "result" /\ async_status = IDLE /\ pc' # pc
       => /\ ret'.op = "result"
          /\ ret'.ok
          /\ ret'.val = None
          /\ pc' = "ready"
          /\ inb' = inb
          /\ state' = state]_vars

\* result() has returned None at IDLE while a frame was waiting to be read
C5_Witness ==
    /\ ret.op = "result"
    /\ ret.ok
    /\ ret.val = None
    /\ async_status = IDLE
    /\ inb # <<>>
    /\ pc = "ready"
    /\ g.ended = ""
    /\ ~g.first

\* C6: exec, exec_params, prepare and exec_prepared return a Result that
\* carries the error when the send is refused, when the receive loop fails on
\* a frame it cannot decode, and when the backend answers with ErrorResponse.
C6_ExecCarriesError ==
    [][/\ (Exec \/ ExecParams \/ Prepare \/ ExecPrepared) /\ ret' # ret
            => ret'.op \in ExecOps /\ HasError(ret')
       /\ pc = "loop" /\ caller = "result" /\ arg.op \in ExecOps /\ inb # <<>>
            /\ inb' = Tail(inb) /\ ~MessageFrom(Head(inb)).ok
            => ret'.op = arg.op /\ HasError(ret')
       /\ pc = "loop" /\ caller = "result" /\ arg.op \in ExecOps /\ inb # <<>>
            /\ inb' = Tail(inb) /\ Head(inb).ty = "E"
            => /\ ret'.op = arg.op
               /\ HasError(ret')
               /\ Unwrap(ret'.val).error_message = Some(Head(inb).val)]_vars

\* C7: exec of a COPY FROM STDIN returns status CopyIn with the status exactly
\* {COPY_IN}; put_copy_end(None), answered by CommandComplete "COPY n", returns
\* Ok with the status exactly IDLE; the exec that follows passes the gate and
\* returns the answer to its own command.
C7_CopyInRoundTrip ==
    [][/\ ret'.op = "exec" /\ IsSome(ret'.val) /\ Unwrap(ret'.val).status = Some("CopyIn")
            /\ ret' # ret
            => async_status' = COPY_IN
       /\ caller = "put_copy_end" /\ arg.kind = "done" /\ pc = "loop" /\ pc' = "ready"
            /\ Head(inb).ty = "C"
            => /\ ret'.op = "put_copy_end"
               /\ ret'.ok
               /\ async_status' = IDLE
       /\ Exec /\ g.ended = "copy_end" => pc' = "enter" /\ caller' = "send_query_start"
       /\ ret'.op = "exec" /\ ret'.ctx.after = "copy_end"
            => /\ ret'.ok
               /\ IsSome(ret'.val)
               /\ OwnResponse(Unwrap(ret'.val), ret'.ctx.cmd)]_vars

\* a SELECT run by exec after a finished COPY FROM STDIN has returned its rows
C7_Witness ==
    /\ ret.op = "exec"
    /\ ret.ctx.after = "copy_end"
    /\ ret.ctx.cmd.kind = "select"
    /\ IsSome(ret.val)
    /\ Len(Unwrap(ret.val).rows) = NRows
    /\ async_status = IDLE
    /\ ncopy > 0

\* C8: put_copy_data and put_copy_end write a message only when the status
\* contains COPY_IN, and then the backend is in copy-in mode; otherwise (no
\* COPY started, COPY ended or aborted, COPY_OUT) they fail with InvalidState,
\* write nothing and leave State as it was.
C8_CopyInOnly ==
    [][PutCopyData \/ PutCopyEnd
       => IF contains(async_status, COPY_IN)
          THEN /\ srv.mode = "copyin"
               /\ nsent' = nsent + 1
               /\ ret' = ret \/ ret'.ok
          ELSE /\ ret'.op \in {"put_copy_data", "put_copy_end"}
               /\ ~ret'.ok
               /\ ret'.err = ErrNoCopyIn
               /\ pc' = "ready"
               /\ nsent' = nsent
               /\ out' = out
               /\ state' = state]_vars

\* put_copy_data was refused after the COPY had been ended by put_copy_end
C8_Witness ==
    /\ ret.op = "put_copy_data"
    /\ ~ret.ok
    /\ ret.err = ErrNoCopyIn
    /\ g.cmd.kind = "copyin"
    /\ srv.mode = "ready"
    /\ async_status = IDLE

\* C9: the copy_data call that reads the backend's CopyDone succeeds and
\* clears COPY_OUT.
C9_CopyDoneClearsCopyOut ==
    [][pc = "copy_data" /\ inb # <<>> /\ Head(inb).ty = "c" /\ inb' = Tail(inb)
       => ret'.ok /\ ~contains(async_status', COPY_OUT)]_vars

\* the notification the backend raised as its n-th
NotifyNo(n) == [pid |-> 7, relname |-> "chan", extra |-> n]

\* number of notifications the client has not read yet
Unread(q) == Cardinality({i \in 1..Len(q) : q[i].ty = "A"})

\* C10: the receive loop appends each NotificationResponse to the queue;
\* notifies() returns the head of the queue and removes it, or None when the
\* queue is empty; the notifications come out in the order the backend raised
\* them, each once, with their pid, channel and payload, and none is lost.
C10_NotifyFifo ==
    [][/\ pc = "loop" /\ inb # <<>> /\ Head(inb).ty = "A" /\ inb' = Tail(inb)
            => notifies' = Append(notifies, Head(inb).val)
       /\ pc = "pop" /\ pc' = "ready"
            => IF notifies = <<>>
               THEN ret' = Ok("notifies", None) /\ notifies' = notifies
               ELSE ret' = Ok("notifies", Some(Head(notifies))) /\ notifies' = Tail(notifies)
       /\ \A i \in 1..Len(notifies') : notifies'[i] = NotifyNo(g'.ndeliv + i)
       /\ ret'.op = "notifies" /\ IsSome(ret'.val) => Unwrap(ret'.val) = NotifyNo(g'.ndeliv)
       /\ nnotify' - Unread(inb') = g'.ndeliv + Len(notifies')]_vars

\* notifies() has returned the first of two queued notifications
C10_Witness ==
    /\ ret.op = "notifies"
    /\ ret.val = Some(NotifyNo(1))
    /\ notifies = <<NotifyNo(2)>>
    /\ pc = "ready"

\* C11: set_single_row_mode succeeds exactly when PREPARE or EXECUTE is set:
\* it fails on the connection on which no command has been sent yet, succeeds
\* between send_query_params and the first result(), and a failed call leaves
\* the single-row flag, the status and the rest of State as they were.
C11_SingleRowGuard ==
    [][SetSingleRowMode
       => /\ ret'.op = "set_single_row_mode"
          /\ g.cmd = NoArg => ~ret'.ok
          /\ g.cmd.op = "send_query_params" /\ g.first /\ ret.op = "send_query_params"
               => ret'.ok /\ single_row_mode'
          /\ ret'.ok <=> contains(async_status, PREPARE) \/ contains(async_status, EXECUTE)
          /\ ~ret'.ok => ret'.err = ErrNoSingleRow /\ state' = state /\ nsent' = nsent]_vars

\* single-row mode was switched on right after send_query_params
C11_Witness ==
    /\ ret = Ok("set_single_row_mode", None)
    /\ single_row_mode
    /\ g.cmd.op = "send_query_params"
    /\ g.first
    /\ contains(async_status, PREPARE)

\* C12: in single-row mode a result() that returns on a DataRow returns a
\* Result with exactly one row, the row just read.
C12_OneRowPerResult ==
    [][pc = "loop" /\ caller = "result" /\ l_srm /\ inb # <<>> /\ Head(inb).ty = "D"
            /\ inb' = Tail(inb)
       => /\ ret'.op = "result"
          /\ IsSome(ret'.val)
          /\ Unwrap(ret'.val).rows = <<Head(inb).val>>]_vars

\* C13: a text-format parameter passed to send_query_prepared reaches the
\* backend byte for byte: the field the backend sends back for "SELECT $1" is
\* the value that was passed, here the four bytes "fooo".
C13_TextParamVerbatim ==
    pc \in {"done", "panic"} /\ arg.op = "bind" /\ arg.formats # <<FormatBinary>>
        /\ arg.values = <<Some(<<102, 111, 111, 111>>)>>
        => pc = "done" /\ ret.val = arg.values

\* C14: while a result() call waits for data from the server, cancel() on another thread can
\* take its snapshot at once (Cancel::request then needs nothing of the connection)
C14_CancelNeverWaits ==
    caller = "result" /\ pc = "loop" /\ inb = <<>> /\ out # <<>> => ENABLED Cancel

\* C15: decoding a DataRow gives one entry per declared field, in order: length -1 gives
\* None and consumes nothing more, length 0 gives Some(empty), length n gives Some of the
\* next n bytes; the whole payload is consumed
C15_DataRowDecodes ==
    pc = "done" /\ arg.op = "data_row" => ret.val = arg.fields /\ inb = <<>>

C15_Witness ==
    /\ pc = "done"
    /\ arg.fields = <<None, Some(<<>>)>>
    /\ ret.val = <<None, Some(<<>>)>>

\* C16: the step of parse_input that processes a ReadyForQuery leaves the loop with
\* AsyncStatus exactly IDLE, whatever command was sent
C16_ReadyMeansIdle ==
    [][pc = "loop" /\ inb # <<>> /\ Head(inb).ty = "Z" /\ inb' = Tail(inb)
           => pc' # "loop" /\ async_status' = IDLE]_vars

\* C17: the step that processes a CommandComplete clears EXECUTE for every tag that does
\* not begin with "COPY "; a BEGIN tag also sets BEGIN and a COMMIT tag also clears it; a
\* "COPY " tag clears COPY_IN and leaves the loop
C17_CommandCompleteClears ==
    [][pc = "loop" /\ inb # <<>> /\ Head(inb).ty = "C" /\ inb' = Tail(inb)
           => LET st == IF pc' = "loop" THEN l_status' ELSE async_status'
                  tag == Head(inb).val
              IN IF starts_with(tag, PfxCopy)
                 THEN ~contains(st, COPY_IN) /\ pc' # "loop"
                 ELSE /\ ~contains(st, EXECUTE)
                      /\ starts_with(tag, PfxBegin) => contains(st, BEGIN)
                      /\ starts_with(tag, PfxCommit) => ~contains(st, BEGIN)]_vars

\* C18: an accepted send inserts exactly the flags of its messages (send_query EXECUTE;
\* send_prepare PREPARE; send_query_params PREPARE, BIND, DESCRIBE_ROW, EXECUTE;
\* send_query_prepared BIND, DESCRIBE_ROW, EXECUTE; send_describe_prepared
\* DESCRIBE_STATEMENT, DESCRIBE_ROW; send_describe_portal DESCRIBE_ROW), and AsyncStatus
\* then stays non-empty until parse_input has processed the message that completes the
\* command: the one after which only ReadyForQuery is left of the response
C18_SendInsertsFlags ==
    [][/\ pc = "send" /\ pc' # "send"
            => /\ async_status' # IDLE
               /\ async_status' = async_status \cup
                    (CASE arg.op = "send_query" -> EXECUTE
                       [] arg.op = "send_prepare" -> PREPARE
                       [] arg.op = "send_query_params" ->
                            PREPARE \cup BIND \cup DESCRIBE_ROW \cup EXECUTE
                       [] arg.op = "send_query_prepared" -> BIND \cup DESCRIBE_ROW \cup EXECUTE
                       [] arg.op = "send_describe_prepared" -> DESCRIBE_STATEMENT \cup DESCRIBE_ROW
                       [] arg.op = "send_describe_portal" -> DESCRIBE_ROW)
       /\ caller # "connect" /\ async_status # IDLE /\ async_status' = IDLE
            => /\ pc = "loop" /\ inb # <<>> /\ inb' = Tail(inb)
               /\ Tail(inb) # <<>> /\ Head(Tail(inb)).ty = "Z"]_vars

\* C19: the step that processes ParseComplete, BindComplete, RowDescription or
\* ParameterDescription removes PREPARE, BIND, DESCRIBE_ROW or DESCRIBE_STATEMENT and
\* changes no other flag; when the flag is not set the status stays as it was
C19_CompleteRemovesOwnFlag ==
    [][pc = "loop" /\ inb # <<>> /\ Head(inb).ty \in {"1", "2", "T", "t"} /\ inb' = Tail(inb)
           => LET st == IF pc' = "loop" THEN l_status' ELSE async_status'
                  flag == CASE Head(inb).ty = "1" -> PREPARE
                            [] Head(inb).ty = "2" -> BIND
                            [] Head(inb).ty = "T" -> DESCRIBE_ROW
                            [] Head(inb).ty = "t" -> DESCRIBE_STATEMENT
              IN st = l_status \ flag]_vars

\* send_query_params: ParseComplete, BindComplete and RowDescription have been processed
C19_Witness ==
    /\ pc = "loop"
    /\ g.cmd.op = "send_query_params"
    /\ l_status = EXECUTE
    /\ inb # <<>> /\ Head(inb).ty \in {"D", "C"}

\* C20: the step that processes CopyInResponse (CopyOutResponse) leaves the receive loop
\* at once, with AsyncStatus exactly COPY_IN (COPY_OUT) whatever flags were outstanding,
\* and with the status of the Result in flight set to CopyIn (CopyOut)
C20_CopyResponseReplaces ==
    [][pc = "loop" /\ inb # <<>> /\ Head(inb).ty \in {"G", "H"} /\ inb' = Tail(inb)
           => /\ pc' # "loop"
              /\ async_status' = IF Head(inb).ty = "G" THEN COPY_IN ELSE COPY_OUT
              /\ IsSome(result')
              /\ Unwrap(result').status =
                    Some(IF Head(inb).ty = "G" THEN "CopyIn" ELSE "CopyOut")]_vars

C20_Witness ==
    /\ pc = "ready"
    /\ ret.op = "result"
    /\ async_status = COPY_OUT
    /\ IsSome(result) /\ Unwrap(result).status = Some("CopyOut")

\* C21: a new State has AsyncStatus exactly CONNECT; through the handshake (AuthenticationOk,
\* ParameterStatus, BackendKeyData) it stays CONNECT; the ReadyForQuery clears it, and the
\* handshake ends at IDLE with the pid and secret of the BackendKeyData message recorded
C21_HandshakeStatus ==
    [][/\ caller = "connect"
            => /\ async_status = CONNECT
               /\ pc = "loop" => l_status = CONNECT
       /\ caller = "connect" /\ pc = "loop" /\ inb # <<>> /\ inb' = Tail(inb)
            => /\ Head(inb).ty = "K" => be_key' = Head(inb).val
               /\ Head(inb).ty = "Z" <=> caller' # "connect"
       /\ caller = "connect" /\ caller' # "connect"
            => async_status' = IDLE /\ be_key' = be_key /\ be_key # <<0, 0>>]_vars

C21_Witness ==
    /\ pc = "ready"
    /\ ncmd = 0
    /\ async_status = IDLE
    /\ be_key = <<7, 11>>

\* C22: a send writes its messages to the socket in the order Parse, Bind,
\* Describe(portal), Execute, Sync; every extended-protocol send ends with its one Sync
\* (send_query_params too); send_query writes Query alone
C22_MessageOrder ==
    [][pc = "send" /\ pc' # "send"
           => /\ Len(out') >= Len(out)
              /\ SubSeq(out', 1, Len(out)) = out
              /\ [i \in 1..(Len(out') - Len(out)) |-> out'[Len(out) + i].ty] =
                    CASE arg.op = "send_query" -> <<"Query">>
                      [] arg.op = "send_prepare" -> <<"Parse", "Sync">>
                      [] arg.op = "send_query_params" ->
                           <<"Parse", "Bind", "DescribePortal", "Execute", "Sync">>
                      [] arg.op = "send_query_prepared" ->
                           <<"Bind", "DescribePortal", "Execute", "Sync">>
                      [] arg.op = "send_describe_prepared" -> <<"DescribeStatement", "Sync">>
                      [] arg.op = "send_describe_portal" -> <<"DescribePortal", "Sync">>]_vars

C22_Witness ==
    /\ pc = "ready"
    /\ ret.op = "send_query_params" /\ ret.ok
    /\ Len(out) = 5
    /\ out[1].ty = "Parse" /\ out[5].ty = "Sync"

\* C23: the stored in-flight Result is empty when a command is sent; a message that writes
\* to the Result belongs to the command in flight; and whenever parse_input returns with
\* AsyncStatus at IDLE the stored Result is None
C23_ResultLifecycle ==
    [][/\ pc = "send" /\ pc' # "send" => result = None
       /\ pc = "loop" /\ inb # <<>> /\ inb' = Tail(inb)
              /\ Head(inb).ty \in {"C", "G", "H", "D", "E", "N", "t", "T"}
            => Head(inb).cmd = g.cmd.lit
       /\ pc \in {"enter", "loop"} /\ pc' \notin {"enter", "loop"} /\ async_status' = IDLE
            => result' = None]_vars

\* C24: when receive_exact(n) returns a buffer, it holds the n bytes of the stream that
\* followed the position at which the call began to read, in order, however their arrival
\* was split, and the stream is then n bytes further
C24_ReceiveExactInOrder ==
    [][\A t \in Threads :
          rx[t].pc \in {"header", "payload"} /\ rx'[t].pc # rx[t].pc /\ rx'[t].ret.kind # "Io"
              => LET s == IF stream.lock = t THEN rx[t].start ELSE stream.pos
                     n == rx[t].need
                 IN /\ rx'[t].buf = SubSeq(stream.sent, s + 1, s + n)
                    /\ stream'.pos = s + n]_vars

\* C25: a receive returns None exactly when the peer has closed the stream and no byte of
\* a frame has been read or is left to read; a close after part of a frame is an Io
\* error; any other return is one decoded message or the error of decoding it
C25_ReceiveNoneAtCleanClose ==
    [][\A t \in Threads :
          rx[t].pc \in {"header", "payload"} /\ rx'[t].pc = "done"
              => IF /\ rx[t].pc = "header"
                    /\ stream.lock # t \/ rx[t].start = stream.pos
                    /\ stream.avail = <<>> /\ stream.wire = <<>> /\ stream.eof
                 THEN rx'[t].ret.kind = "None"
                 ELSE IF Len(stream.avail) < rx[t].need
                 THEN rx'[t].ret.kind = "Io"
                 ELSE rx'[t].ret.kind \in {"ok", "InvalidResponse"}]_vars

\* C26: once a receive has read the header of a frame, no other thread reads from the
\* stream until that receive has read the payload
C26_FrameNotSplit ==
    [][\A t \in Threads :
          rx[t].pc = "payload" /\ stream'.pos # stream.pos
              => rx'[t] # rx[t] \/ stream'.lock = t]_vars

\* C30: whatever frame arrives, malformed ones included, receive returns a value
\* (a message, InvalidResponse or Io): no thread ends in a panic
C30_MalformedIsAnError ==
    \A t \in Threads : rx[t].pc # "panic"

\* C27: to_bytes writes the tag byte (none for Startup and CancelRequest), then the payload
\* length + 4 as a big-endian i32, then the payload; a CancelRequest is exactly 16 bytes:
\* 16, the cancel code, the pid and the secret, each a big-endian i32
C27_ToBytesFraming ==
    pc = "encoded" =>
        LET m == arg.msg
            k == IF m.name \in {"Startup", "CancelRequest"} THEN 0 ELSE 1
            body == SubSeq(out, k + 5, Len(out))
        IN /\ Len(out) >= k + 4
           /\ SubSeq(out, 1, k) = MessageTy(m)
           /\ I32From(SubSeq(out, k + 1, k + 4)) = Len(body) + 4
           /\ body = payload(m)
           /\ m.name = "CancelRequest" =>
                 /\ Len(out) = 16
                 /\ I32From(SubSeq(out, 1, 4)) = 16
                 /\ I32From(SubSeq(out, 5, 8)) = m.n[1]
                 /\ I32From(SubSeq(out, 9, 12)) = m.n[2]
                 /\ I32From(SubSeq(out, 13, 16)) = m.n[3]

\* the cancel request for pid 258 and secret -1
C27_Witness ==
    /\ pc = "encoded"
    /\ arg.msg.name = "CancelRequest"
    /\ arg.msg.n = <<CancelCode, 258, -1>>
    /\ out = <<0, 0, 0, 16, 4, 210, 22, 46, 0, 0, 1, 2, 255, 255, 255, 255>>

\* the bytes of parameter n of a Bind as the protocol lays them out
C28_Param(values, formats, n) ==
    LET v == values[n] IN
    IF v = None THEN <<255, 255, 255, 255>>
    ELSE IF n <= Len(formats) /\ formats[n] = FormatBinary
    THEN I32Bytes(Len(Unwrap(v))) \o Unwrap(v)
    ELSE I32Bytes(Len(Unwrap(v)) - 1) \o SubSeq(Unwrap(v), 1, Len(Unwrap(v)) - 1)

\* a text parameter holds at least the trailing byte that is stripped
C28_Stripable(values, formats) ==
    \A n \in 1..Len(values) :
        values[n] # None /\ Unwrap(values[n]) = <<>> => n <= Len(formats) /\ formats[n] = FormatBinary

C28_WitnessFooo ==
    /\ pc = "sent"
    /\ arg.values = <<Some(<<102, 111, 111, 111, 0>>)>>
    /\ arg.formats = <<>>
    /\ BackendParam(out) = Some(<<102, 111, 111, 111>>)

\* C29: Message::from gives Err(InvalidResponse(tag, payload)), with the tag and the
\* payload as they were handed in, for every tag without an arm (any tag but
\* 1 2 3 A C d D E G H I K N R S t T Z), and gives it for no tag that has one
C29_UnknownTagIsInvalidResponse ==
    [][\A t \in Threads :
          rx[t].pc = "payload" /\ rx'[t].pc \in {"done", "panic"} /\ rx'[t].ret.kind # "Io"
              => LET tag == rx[t].hdr[1]
                     raw == SubSeq(stream.avail, 1, rx[t].need)
                 IN IF tag \in ImplementedTags
                    THEN rx'[t].ret.kind # "InvalidResponse"
                    ELSE /\ rx'[t].pc = "done"
                         /\ rx'[t].ret = [kind |-> "InvalidResponse", tag |-> tag, payload |-> raw]]_vars

\* a frame of tag "n" with the payload "fo" was refused
C29_Witness ==
    \E t \in Threads :
        /\ rx[t].pc = "done"
        /\ rx[t].ret = [kind |-> "InvalidResponse", tag |-> 110, payload |-> <<102, 111>>]

\* C31: for every message that to_bytes encodes with a tag, Message::from on that tag and
\* that payload gives back the same variant with the same content
C31_RoundTrip ==
    pc \in {"done", "panic"} /\ arg.op = "to_bytes"
        => /\ pc = "done"
           /\ ret = Ok("from", Some([name |-> arg.msg.name, payload |-> payload(arg.msg)]))

\* C32: a result() call that has entered the receive loop for a query accepted at IDLE, which
\* the server answers completely (rows, BEGIN, COMMIT, each followed by ReadyForQuery),
\* returns: the loop never waits for a message the server is not going to send
C32_ResultReturns ==
    (pc = "loop" /\ caller = "result" /\ async_status = EXECUTE
        /\ g.cmd.kind \in {"select", "begin", "commit"})
        ~> (pc = "ready")

\* C33: the Result that result() returns holds nothing but what the backend sent in answer
\* to the command that was sent last: every row and the error come from that command
C33_OnlyOwnMessages ==
    ret.op = "result" /\ ret.ok /\ IsSome(ret.val)
        => LET r == Unwrap(ret.val) IN
           /\ \A i \in 1..Len(r.rows) : r.rows[i][1] = ret.ctx.cmd.lit
           /\ IsSome(r.error_message) => Unwrap(r.error_message)[2] = ret.ctx.cmd.lit

\* C34: the first result() after send_query and then consume_input returns the Result of
\* the command, not None
C34_ConsumeKeepsResult ==
    [][/\ ret'.op = "result" /\ ret.op = "consume_input" /\ ret.ok
       /\ ret'.ctx.first /\ ret'.ctx.cmd.op = "send_query" /\ ret'.ctx.after = ""
       => /\ IsSome(ret'.val)
          /\ OwnResponse(Unwrap(ret'.val), ret'.ctx.cmd)]_vars

\* C35: a notification the backend sends when it has answered every command is returned by
\* a notifies() call in the end, for a client that keeps calling consume_input and notifies
C35_NotifyDelivered ==
    \A k \in 1..MaxNotify : (nnotify >= k) ~> (g.ndeliv >= k)

\* C36: while parse_input is in its loop the stored AsyncStatus and the stored Result do
\* not change, and when receive fails they are left as they were before the call: what the
\* loop has done to its local copies is not written back; result() then returns None
C36_FailureCommitsNothing ==
    [][/\ pc = "loop" /\ pc' = "loop" => async_status' = async_status /\ result' = result
       /\ pc = "loop" /\ inb # <<>> /\ inb' = Tail(inb) /\ ~MessageFrom(Head(inb)).ok
            => /\ async_status' = async_status
               /\ result' = result
               /\ caller = "result" => pc' = "ready" /\ ret'.op = "result" /\ ret'.val = None]_vars

\* result() has failed on the NoData that answers the Describe of send_query_params, after
\* ParseComplete and BindComplete: PREPARE and BIND are still set
C36_Witness ==
    /\ pc = "ready"
    /\ ret.op = "result"
    /\ ret.val = None
    /\ ret.ctx.cmd.op = "send_query_params"
    /\ async_status = PREPARE \cup BIND \cup DESCRIBE_ROW \cup EXECUTE
    /\ inb # <<>>
    /\ Head(inb).ty = "C"

\* C37: whatever message of the 18 tags of Message::from the loop of parse_input reads, its
\* match has an arm for it: unreachable!() is never reached
C37_EveryTagHandled == pc # "panic"

\* C38: when parse_input writes its status back while the messages that a second thread
\* has sent during the loop are still unread by the backend, the flags that send inserted
\* are set in the stored AsyncStatus
C38_NoLostUpdate ==
    [][/\ pc = "loop" /\ pc' \notin {"loop", "panic"}
       /\ inb # <<>> /\ MessageFrom(Head(inb)).ok
       /\ g.ins # IDLE
       /\ out # <<>> /\ Head(out).ty \in {"Bind", "DescribePortal", "DescribeStatement"}
       => \A f \in g.ins : f \in async_status']_vars

\* C39: a parameter that the backend takes as binary (by the format codes of the message:
\* none, one for all, or one each) reaches it with all its bytes
C39_BinarySentInFull ==
    pc = "sent" /\ arg.op = "bind"
        => \A n \in 1..Len(arg.values) :
              IsSome(arg.values[n]) /\ BackendFormat(arg.formats, n) = FormatBinary
                  => BackendParams(out)[n] = arg.values[n]

====
